---- MODULE Spec2Model ----
(***************************************************************************)
(* The Autonomous Resolution Loop of coordination_intelligence:            *)
(* detector -> classifier -> router -> executor, driven by                 *)
(* AutonomousResolutionLoop.run_cycle / force_escalate /                   *)
(* get_blocker_status.                                                     *)
(*                                                                         *)
(* Conventions                                                             *)
(*  - a datetime is an integer count of half days (12 h); an optional      *)
(*    value (X | None) is a sequence of length 0 or 1;                     *)
(*  - a free text is the set of the key phrases it contains, and a regex   *)
(*    or substring search is membership of its phrase in the text;         *)
(*  - a Blocker object is a record of the sequence `blockers` (the         *)
(*    detector's _detected list, which holds every Blocker object ever     *)
(*    created); its id is its index there (uuid4 ids are fresh);           *)
(*  - the field `trace` of a blocker lists every value assigned to its     *)
(*    status, in assignment order.                                         *)
(***************************************************************************)
EXTENDS Integers, Sequences, FiniteSets, TLC

VARIABLES
    blockers,      \* detector._detected: every Blocker object, by id
    classification_log,  \* classifier._classification_log
    active,        \* loop._active_blockers: tracked ids, in insertion order
    plans,         \* loop._active_plans: id -> ResolutionPlan
    metrics,       \* loop.metrics (LoopMetrics)
    learning_log,  \* loop._learning_log
    results,       \* executor._results
    action_log,    \* executor._action_log
    executions,    \* one record per ResolutionExecutor.execute call: what it saw and left
    clock,         \* the wall clock read by datetime.now()
    call,          \* the last call made on the orchestrator: its arguments (check-ins by
                   \* employee, tasks by id) and how many executions it made
    ret,           \* what that call returned (a sequence; None is <<>>)
    inflight       \* the run_cycle calls being made by threads sharing the loop: for each
                   \* caller, where its call stands and the call's local variables

vars == <<blockers, classification_log, active, plans, metrics, learning_log, results,
          action_log, executions, clock, call, ret, inflight>>

----------------------------------------------------------------------------
(* Bounds of the model *)

MaxBlockers == 2
MaxCycles == 3
MaxNow == 3
MaxClock == 1
MaxForced == 1
MaxTargets == 2
MaxTasks == 2
MaxLate == 16
MaxStalled == 7
MaxLater == 2

----------------------------------------------------------------------------
(* models.py: enumerations and configuration defaults *)

UnitsPerDay == 2

BlockerType == {"dependency", "resource", "technical", "knowledge", "organizational"}

Severity == {"low", "medium", "high", "critical"}

AuthorityLevel == {"immediate", "standard", "elevated"}

ResolutionAction ==
    {"notify", "schedule_meeting", "reassign", "escalate", "provide_info", "connect_peers"}

BlockerStatus ==
    {"detected", "classified", "routed", "in_progress", "resolved", "escalated", "stale"}

ChannelType == {"slack", "email", "sms"}

None == <<>>

Some(x) == <<x>>

\* EscalationConfig.escalate_to_manager = timedelta(hours=24)
ESCALATE_TO_MANAGER == 2

\* EscalationConfig.escalate_to_director = timedelta(hours=48)
ESCALATE_TO_DIRECTOR == 4

\* BlockerDetector.stale_threshold = timedelta(days=3)
STALE_THRESHOLD == 6

\* BlockerDetector.overdue_severity = Severity.HIGH
OVERDUE_SEVERITY == "high"

\* detect_overdue_tasks: CRITICAL if days_overdue > 7
OVERDUE_CRITICAL_DAYS == 7

\* ResolutionRouter(): max_authority = ELEVATED, default_channel = SLACK
MAX_AUTHORITY == "elevated"

DEFAULT_CHANNEL == "slack"

\* timedelta.days of a non-negative timedelta
Days(delta) == delta \div UnitsPerDay

----------------------------------------------------------------------------
(* Sequence helpers *)

Range(s) == {s[i] : i \in DOMAIN s}

RECURSIVE Concat(_)
Concat(ss) == IF ss = <<>> THEN <<>> ELSE Head(ss) \o Concat(Tail(ss))

RECURSIVE Remove(_, _)
Remove(s, x) ==
    IF s = <<>> THEN <<>>
    ELSE IF Head(s) = x THEN Remove(Tail(s), x)
    ELSE <<Head(s)>> \o Remove(Tail(s), x)

RECURSIVE RemoveAll(_, _)
RemoveAll(s, xs) == IF xs = <<>> THEN s ELSE RemoveAll(Remove(s, Head(xs)), Tail(xs))

RECURSIVE SumSeq(_)
SumSeq(s) == IF s = <<>> THEN 0 ELSE Head(s) + SumSeq(Tail(s))

----------------------------------------------------------------------------
(* detector.py: pattern tables, as the phrases of the vocabulary they match *)

\* _BLOCKER_PATTERNS: \bwaiting\s+(on|for)\b, \bblocked\b, \bstuck\b
BLOCKER_PATTERNS == <<"blocked by", "waiting on", "stuck">>

\* _SEVERITY_KEYWORDS, in dict order CRITICAL, HIGH, MEDIUM, LOW
SEVERITY_KEYWORDS ==
    << <<"critical", {"critical"}>>, <<"high", {"asap"}>>,
       <<"medium", {"this week"}>>, <<"low", {"minor"}>> >>

\* _estimate_severity: the first severity, in dict order, one of whose keywords is in the text
_estimate_severity(text) ==
    LET hit == {i \in DOMAIN SEVERITY_KEYWORDS : SEVERITY_KEYWORDS[i][2] \cap text # {}}
    IN  IF hit = {} THEN "medium"
        ELSE SEVERITY_KEYWORDS[CHOOSE i \in hit : \A j \in hit : i <= j][1]

PatternMatches(text) == \E i \in DOMAIN BLOCKER_PATTERNS : BLOCKER_PATTERNS[i] \in text

NewBlocker(title, description, severity, employees, tasks, source, detected_at) ==
    [ id |-> 0,
      title |-> title,
      description |-> description,
      blocker_type |-> None,
      severity |-> severity,
      status |-> "detected",
      authority_level |-> "standard",
      affected_employee_ids |-> employees,
      affected_task_ids |-> tasks,
      source_check_in_id |-> source,
      detected_at |-> detected_at,
      resolved_at |-> None,
      resolution_action |-> None,
      resolution_notes |-> None,
      escalation_count |-> 0,
      trace |-> <<"detected">> ]

\* a faulty scan, for comparison: one Blocker for every pattern that matches the field
PatternBlockerPerPattern(checkin, text) ==
    Concat([i \in DOMAIN BLOCKER_PATTERNS |->
              IF BLOCKER_PATTERNS[i] \in text
              THEN << NewBlocker("pattern", text, _estimate_severity(text),
                                 <<checkin.employee_id>>, <<>>, Some(checkin.employee_id),
                                 checkin.timestamp) >>
              ELSE <<>>])

\* one Blocker for the text field `text`, if a blocker pattern matches it
PatternBlocker(checkin, text) ==
    IF text # {} /\ PatternMatches(text)
    THEN << NewBlocker("pattern", text, _estimate_severity(text),
                       <<checkin.employee_id>>, <<>>, Some(checkin.employee_id),
                       checkin.timestamp) >>
    ELSE <<>>

detect_from_checkin(checkin) ==
    (IF checkin.blockers # {}
     THEN << NewBlocker("explicit", checkin.blockers, _estimate_severity(checkin.blockers),
                        <<checkin.employee_id>>, <<>>, Some(checkin.employee_id),
                        checkin.timestamp) >>
     ELSE <<>>)
    \o PatternBlocker(checkin, checkin.accomplished)
    \o PatternBlocker(checkin, checkin.working_on)
    \o (IF checkin.needs_help /\ checkin.sentiment < 3
        THEN << NewBlocker("help", checkin.working_on, "high",
                           <<checkin.employee_id>>, <<>>, Some(checkin.employee_id),
                           checkin.timestamp) >>
        ELSE <<>>)

OverdueBlocker(task, now) ==
    IF ~task.completed /\ task.due_date # None /\ task.due_date[1] < now
    THEN << NewBlocker("overdue", task.title,
                       IF Days(now - task.due_date[1]) > OVERDUE_CRITICAL_DAYS
                       THEN "critical" ELSE OVERDUE_SEVERITY,
                       task.assignee_id, <<task.id>>, None, now) >>
    ELSE <<>>

detect_overdue_tasks(tasks, now) ==
    Concat([i \in DOMAIN tasks |-> OverdueBlocker(tasks[i], now)])

\* a faulty test, for comparison: stalled for the window or longer
StalledBlockerAtWindow(task, now) ==
    IF ~task.completed /\ task.stalled_since # None
       /\ now - task.stalled_since[1] >= STALE_THRESHOLD
    THEN << NewBlocker("stalled", task.title, "medium",
                       task.assignee_id, <<task.id>>, None, now) >>
    ELSE <<>>

StalledBlocker(task, now) ==
    IF ~task.completed /\ task.stalled_since # None
       /\ now - task.stalled_since[1] > STALE_THRESHOLD
    THEN << NewBlocker("stalled", task.title, "medium",
                       task.assignee_id, <<task.id>>, None, now) >>
    ELSE <<>>

detect_stalled_tasks(tasks, now) ==
    Concat([i \in DOMAIN tasks |-> StalledBlocker(tasks[i], now)])

\* a faulty _detect, for comparison: stalled tasks before overdue tasks
DetectStalledFirst(checkins, tasks, now, n) ==
    LET found == Concat([i \in DOMAIN checkins |-> detect_from_checkin(checkins[i])])
                 \o detect_stalled_tasks(tasks, now)
                 \o detect_overdue_tasks(tasks, now)
    IN  [i \in DOMAIN found |-> [found[i] EXCEPT !.id = n + i]]

\* AutonomousResolutionLoop._detect; the new Blocker objects get fresh ids after `n`
_detect(checkins, tasks, now, n) ==
    LET found == Concat([i \in DOMAIN checkins |-> detect_from_checkin(checkins[i])])
                 \o detect_overdue_tasks(tasks, now)
                 \o detect_stalled_tasks(tasks, now)
    IN  [i \in DOMAIN found |-> [found[i] EXCEPT !.id = n + i]]

----------------------------------------------------------------------------
(* classifier.py *)

\* _TYPE_KEYWORDS, in dict order, as the phrases of the vocabulary each type matches
TYPE_KEYWORDS ==
    << <<"dependency", {"waiting on", "blocked by"}>>,
       <<"resource", {"server"}>>,
       <<"technical", {"bug", "api"}>>,
       <<"knowledge", {"documentation"}>>,
       <<"organizational", {"meeting"}>> >>

\* _score_types: hits per type (types without a hit are not in the dict)
_score_types(text) ==
    [i \in DOMAIN TYPE_KEYWORDS |-> Cardinality(TYPE_KEYWORDS[i][2] \cap text)]

\* a faulty classify, for comparison: a blocker that has a category keeps it
ClassifyKeepingCategory(b) ==
    LET scores == _score_types(b.description)
        hit == {i \in DOMAIN scores : scores[i] > 0}
        best == CHOOSE i \in hit :
                    /\ \A j \in hit : scores[j] <= scores[i]
                    /\ \A j \in hit : scores[j] = scores[i] => i <= j
    IN  [b EXCEPT !.blocker_type = IF b.blocker_type # None THEN b.blocker_type
                                   ELSE IF hit = {} THEN Some("organizational")
                                   ELSE Some(TYPE_KEYWORDS[best][1]),
                  !.status = "classified",
                  !.trace = Append(@, "classified")]

\* a faulty classify, for comparison: of several maximal types the last in dict order
ClassifyLastMaximal(b) ==
    LET scores == _score_types(b.description)
        hit == {i \in DOMAIN scores : scores[i] > 0}
        best == CHOOSE i \in hit :
                    /\ \A j \in hit : scores[j] <= scores[i]
                    /\ \A j \in hit : scores[j] = scores[i] => j <= i
    IN  [b EXCEPT !.blocker_type = IF hit = {} THEN Some("organizational")
                                   ELSE Some(TYPE_KEYWORDS[best][1]),
                  !.status = "classified",
                  !.trace = Append(@, "classified")]

\* classify: max(scores, key=scores.get) returns the first maximal key in dict order
classify(b) ==
    LET scores == _score_types(b.description)
        hit == {i \in DOMAIN scores : scores[i] > 0}
        best == CHOOSE i \in hit :
                    /\ \A j \in hit : scores[j] <= scores[i]
                    /\ \A j \in hit : scores[j] = scores[i] => i <= j
    IN  [b EXCEPT !.blocker_type = IF hit = {} THEN Some("organizational")
                                   ELSE Some(TYPE_KEYWORDS[best][1]),
                  !.status = "classified",
                  !.trace = Append(@, "classified")]

----------------------------------------------------------------------------
(* router.py *)

\* _ROUTING_TABLE: (blocker_type, severity) -> (action, authority)
ROUTING_TABLE ==
    [ dependency |->
        [ low |-> <<"notify", "immediate">>, medium |-> <<"notify", "immediate">>,
          high |-> <<"schedule_meeting", "standard">>, critical |-> <<"escalate", "elevated">> ],
      resource |->
        [ low |-> <<"notify", "immediate">>, medium |-> <<"reassign", "standard">>,
          high |-> <<"reassign", "standard">>, critical |-> <<"escalate", "elevated">> ],
      technical |->
        [ low |-> <<"provide_info", "immediate">>, medium |-> <<"connect_peers", "immediate">>,
          high |-> <<"schedule_meeting", "standard">>, critical |-> <<"escalate", "elevated">> ],
      knowledge |->
        [ low |-> <<"provide_info", "immediate">>, medium |-> <<"provide_info", "immediate">>,
          high |-> <<"connect_peers", "standard">>,
          critical |-> <<"schedule_meeting", "standard">> ],
      organizational |->
        [ low |-> <<"notify", "immediate">>, medium |-> <<"schedule_meeting", "standard">>,
          high |-> <<"escalate", "elevated">>, critical |-> <<"escalate", "elevated">> ] ]

\* _FALLBACK_ACTIONS
FALLBACK_ACTIONS ==
    [ escalate |-> "schedule_meeting", reassign |-> "notify",
      schedule_meeting |-> "notify", connect_peers |-> "provide_info" ]

\* dict.get(key): None when the key is missing
Get(table, key) == IF key \in DOMAIN table THEN Some(table[key]) ELSE None

_authority_rank(level) ==
    CASE level = "immediate" -> 0 [] level = "standard" -> 1 [] level = "elevated" -> 2

_select_channel(router, severity) ==
    IF severity = "critical" THEN "sms"
    ELSE IF severity = "high" THEN "slack"
    ELSE router.default_channel

\* ResolutionRouter(): the router the loop constructs for itself
OwnRouter ==
    [ max_authority |-> MAX_AUTHORITY, default_channel |-> DEFAULT_CHANNEL,
      fallback_actions |-> FALLBACK_ACTIONS ]

\* a faulty route, for comparison: the table's authority is not clamped
RouteUnclamped(router, b) ==
    LET btype == IF b.blocker_type = None THEN "organizational" ELSE b.blocker_type[1]
        entry == ROUTING_TABLE[btype][b.severity]
    IN  [ plan |-> [ blocker_id |-> b.id,
                     action |-> entry[1],
                     authority_level |-> entry[2],
                     target_employee_ids |-> b.affected_employee_ids,
                     channel |-> _select_channel(router, b.severity),
                     fallback_action |-> Get(router.fallback_actions, entry[1]) ],
          blocker |-> [b EXCEPT !.status = "routed",
                                !.trace = Append(@, "routed"),
                                !.authority_level = entry[2],
                                !.resolution_action = Some(entry[1])] ]

\* a faulty route, for comparison: the clamp lowers the authority and keeps the action
RouteKeepingAction(router, b) ==
    LET btype == IF b.blocker_type = None THEN "organizational" ELSE b.blocker_type[1]
        entry == ROUTING_TABLE[btype][b.severity]
        clamp == _authority_rank(entry[2]) > _authority_rank(router.max_authority)
        authority == IF clamp THEN router.max_authority ELSE entry[2]
    IN  [ plan |-> [ blocker_id |-> b.id,
                     action |-> entry[1],
                     authority_level |-> authority,
                     target_employee_ids |-> b.affected_employee_ids,
                     channel |-> _select_channel(router, b.severity),
                     fallback_action |-> Get(router.fallback_actions, entry[1]) ],
          blocker |-> [b EXCEPT !.status = "routed",
                                !.trace = Append(@, "routed"),
                                !.authority_level = authority,
                                !.resolution_action = Some(entry[1])] ]

\* ResolutionRouter.route: the plan, and the blocker as route leaves it
route(router, b) ==
    LET btype == IF b.blocker_type = None THEN "organizational" ELSE b.blocker_type[1]
        entry == ROUTING_TABLE[btype][b.severity]
        clamp == _authority_rank(entry[2]) > _authority_rank(router.max_authority)
        authority == IF clamp THEN router.max_authority ELSE entry[2]
        action == IF ~clamp THEN entry[1]
                  ELSE IF entry[1] \in DOMAIN router.fallback_actions
                       THEN router.fallback_actions[entry[1]]
                       ELSE "notify"
    IN  [ plan |-> [ blocker_id |-> b.id,
                     action |-> action,
                     authority_level |-> authority,
                     target_employee_ids |-> b.affected_employee_ids,
                     channel |-> _select_channel(router, b.severity),
                     fallback_action |-> Get(router.fallback_actions, action) ],
          blocker |-> [b EXCEPT !.status = "routed",
                                !.trace = Append(@, "routed"),
                                !.authority_level = authority,
                                !.resolution_action = Some(action)] ]

----------------------------------------------------------------------------
(* resolver.py: ResolutionExecutor.  A world W is the record of the mutable  *)
(* objects a call works on (the variables of this module, by name).         *)

\* a faulty verdict, for comparison: one target employee is enough for every action
HandlerNeedsOne(plan) ==
    CASE plan.action \in {"schedule_meeting", "reassign", "connect_peers"} ->
            Len(plan.target_employee_ids) >= 1
      [] OTHER -> TRUE

\* the handler's verdict: it needs enough target employees for the action
HandlerSucceeds(plan) ==
    CASE plan.action = "schedule_meeting" -> Len(plan.target_employee_ids) >= 1
      [] plan.action = "reassign" -> Len(plan.target_employee_ids) >= 2
      [] plan.action = "connect_peers" -> Len(plan.target_employee_ids) >= 2
      [] OTHER -> TRUE

\* _handle_escalate is the one handler that changes the blocker
Handle(plan, b) ==
    IF plan.action = "escalate"
    THEN [b EXCEPT !.escalation_count = @ + 1,
                   !.status = "escalated",
                   !.trace = Append(@, "escalated")]
    ELSE b

\* a faulty execute, for comparison: a failure clears resolved_at and resolution_notes
ExecuteClearingOnFailure(W, plan, id) ==
    LET b0 == W.blockers[id]
        ok == HandlerSucceeds(plan)
        b1 == Handle(plan, b0)
        result == [plan |-> plan, success |-> ok, timestamp |-> W.clock]
        b2 == IF ok
              THEN [b1 EXCEPT !.status = "resolved",
                              !.trace = Append(@, "resolved"),
                              !.resolved_at = Some(result.timestamp),
                              !.resolution_notes = Some(plan.action)]
              ELSE [b1 EXCEPT !.status = "in_progress",
                              !.trace = Append(@, "in_progress"),
                              !.resolved_at = None,
                              !.resolution_notes = None]
    IN  [ w |-> [W EXCEPT !.blockers[id] = b2,
                          !.results = Append(@, result),
                          !.action_log = Append(@, [ blocker_id |-> id,
                                                     action |-> plan.action,
                                                     success |-> ok,
                                                     timestamp |-> result.timestamp ]),
                          !.executions = Append(@, [ blocker_id |-> id,
                                                     action |-> plan.action,
                                                     targets |-> Len(plan.target_employee_ids),
                                                     success |-> ok,
                                                     status_before |-> b0.status,
                                                     status_after |-> b2.status,
                                                     escalations_before |-> b0.escalation_count,
                                                     escalations_after |-> b2.escalation_count ])],
          result |-> result ]

\* ResolutionExecutor.execute on the blocker `id`
execute(W, plan, id) ==
    LET b0 == W.blockers[id]
        ok == HandlerSucceeds(plan)
        b1 == Handle(plan, b0)
        result == [plan |-> plan, success |-> ok, timestamp |-> W.clock]
        b2 == IF ok
              THEN [b1 EXCEPT !.status = "resolved",
                              !.trace = Append(@, "resolved"),
                              !.resolved_at = Some(result.timestamp),
                              !.resolution_notes = Some(plan.action)]
              ELSE [b1 EXCEPT !.status = "in_progress",
                              !.trace = Append(@, "in_progress")]
    IN  [ w |-> [W EXCEPT !.blockers[id] = b2,
                          !.results = Append(@, result),
                          !.action_log = Append(@, [ blocker_id |-> id,
                                                     action |-> plan.action,
                                                     success |-> ok,
                                                     timestamp |-> result.timestamp ]),
                          !.executions = Append(@, [ blocker_id |-> id,
                                                     action |-> plan.action,
                                                     targets |-> Len(plan.target_employee_ids),
                                                     success |-> ok,
                                                     status_before |-> b0.status,
                                                     status_after |-> b2.status,
                                                     escalations_before |-> b0.escalation_count,
                                                     escalations_after |-> b2.escalation_count ])],
          result |-> result ]

\* a faulty execute_with_fallback, for comparison: the fallback is not tried
ExecuteWithoutFallback(W, plan, id) == execute(W, plan, id)

\* a faulty execute_with_fallback, for comparison: a failed fallback is tried again
ExecuteRetryingFallback(W, plan, id) ==
    LET first == execute(W, plan, id)
        fallback_plan == [plan EXCEPT !.action = plan.fallback_action[1]]
    IN  IF ~first.result.success /\ plan.fallback_action # None
        THEN LET second == execute(first.w, fallback_plan, id)
             IN  IF second.result.success THEN second
                 ELSE execute(second.w, fallback_plan, id)
        ELSE first

\* ResolutionExecutor.execute_with_fallback
execute_with_fallback(W, plan, id) ==
    LET first == execute(W, plan, id)
    IN  IF ~first.result.success /\ plan.fallback_action # None
        THEN execute(first.w, [plan EXCEPT !.action = plan.fallback_action[1]], id)
        ELSE first

----------------------------------------------------------------------------
(* loop.py: LoopMetrics and AutonomousResolutionLoop *)

\* LoopMetrics.__init__; the average is the fraction <<sum, count>> of half days
NewMetrics ==
    [ total_cycles |-> 0, total_detected |-> 0, total_resolved |-> 0,
      total_escalated |-> 0, total_stale |-> 0,
      avg_resolution_time_hours |-> <<0, 1>>, _resolution_times |-> <<>> ]

\* LoopMetrics.record_resolution
record_resolution(m, b) ==
    IF b.resolved_at # None
    THEN LET times == Append(m._resolution_times, b.resolved_at[1] - b.detected_at)
         IN  [m EXCEPT !._resolution_times = times,
                       !.avg_resolution_time_hours = <<SumSeq(times), Len(times)>>]
    ELSE m

\* a faulty resolution_rate, for comparison: no guard for total_detected = 0
UnguardedRate(m) == <<m.total_resolved, m.total_detected>>

\* LoopMetrics.summary: resolution_rate as the fraction <<numerator, denominator>>
resolution_rate(m) ==
    IF m.total_detected > 0 THEN <<m.total_resolved, m.total_detected>> ELSE <<0, 1>>

\* a faulty _learn, for comparison: only successful outcomes are logged
LearnSuccessOnly(W, id, plan, result) ==
    LET b == W.blockers[id]
    IN  IF ~result.success THEN W
        ELSE [W EXCEPT !.learning_log =
                Append(@, [ blocker_id |-> id,
                            blocker_type |-> b.blocker_type,
                            severity |-> b.severity,
                            action |-> plan.action,
                            channel |-> plan.channel,
                            success |-> result.success,
                            escalation_count |-> b.escalation_count,
                            timestamp |-> result.timestamp ])]

\* AutonomousResolutionLoop._learn
_learn(W, id, plan, result) ==
    LET b == W.blockers[id]
    IN  [W EXCEPT !.learning_log =
            Append(@, [ blocker_id |-> id,
                        blocker_type |-> b.blocker_type,
                        severity |-> b.severity,
                        action |-> plan.action,
                        channel |-> plan.channel,
                        success |-> result.success,
                        escalation_count |-> b.escalation_count,
                        timestamp |-> result.timestamp ])]

\* a faulty force_escalate, for comparison: the stored plan is executed as it is
ForceEscalateStoredPlan(W, id) ==
    IF id \notin Range(W.active) THEN [w |-> W, result |-> None]
    ELSE IF id \notin DOMAIN W.plans THEN [w |-> W, result |-> None]
    ELSE LET ex == execute(W, W.plans[id], id)
             w1 == [ex.w EXCEPT !.metrics.total_escalated = @ + 1]
         IN  [w |-> _learn(w1, id, W.plans[id], ex.result), result |-> Some(ex.result)]

\* a faulty force_escalate, for comparison: the blocker is not looked up in active tracking
ForceEscalatePlanned(W, id) ==
    IF id \notin DOMAIN W.plans THEN [w |-> W, result |-> None]
    ELSE LET escalation_plan == [W.plans[id] EXCEPT !.action = "escalate",
                                                    !.authority_level = "elevated"]
             ex == execute(W, escalation_plan, id)
             w1 == [ex.w EXCEPT !.metrics.total_escalated = @ + 1]
         IN  [w |-> _learn(w1, id, escalation_plan, ex.result), result |-> Some(ex.result)]

\* AutonomousResolutionLoop.force_escalate: the world it leaves and what it returns
force_escalate(W, id) ==
    IF id \notin Range(W.active) THEN [w |-> W, result |-> None]
    ELSE IF id \notin DOMAIN W.plans THEN [w |-> W, result |-> None]
    ELSE LET escalation_plan == [W.plans[id] EXCEPT !.action = "escalate",
                                                    !.authority_level = "elevated"]
             ex == execute(W, escalation_plan, id)
             w1 == [ex.w EXCEPT !.metrics.total_escalated = @ + 1]
         IN  [w |-> _learn(w1, id, escalation_plan, ex.result), result |-> Some(ex.result)]

\* a faulty skip test, for comparison: the sweep looks at every tracked blocker
SweepSkipsNothing(b) == FALSE

\* _check_escalations skips blockers that are resolved or escalated
SweepSkips(b) == b.status \in {"resolved", "escalated"}

\* a faulty test, for comparison: stale at the threshold already
IsStaleAtThreshold(age) == age >= ESCALATE_TO_DIRECTOR

\* age > escalate_to_director
IsStale(age) == age > ESCALATE_TO_DIRECTOR

\* a faulty test, for comparison: only blockers escalated before
NeedsManagerAgain(b, age) == age > ESCALATE_TO_MANAGER /\ b.escalation_count # 0

\* age > escalate_to_manager, and not escalated yet
NeedsManager(b, age) == age > ESCALATE_TO_MANAGER /\ b.escalation_count = 0

\* the stale branch of _check_escalations
MarkStale(W, id) ==
    [W EXCEPT !.blockers[id].status = "stale",
              !.blockers[id].trace = Append(@, "stale"),
              !.blockers[id].severity = "critical",
              !.metrics.total_stale = @ + 1]

\* the loop of _check_escalations over the tracked ids, collecting stale_ids
RECURSIVE SweepLoop(_, _, _, _)
SweepLoop(W, ids, now, stale_ids) ==
    IF ids = <<>> THEN [w |-> W, stale_ids |-> stale_ids]
    ELSE LET id == Head(ids)
             b == W.blockers[id]
             age == now - b.detected_at
         IN  IF SweepSkips(b) THEN SweepLoop(W, Tail(ids), now, stale_ids)
             ELSE IF IsStale(age)
                  THEN SweepLoop(MarkStale(W, id), Tail(ids), now, Append(stale_ids, id))
             ELSE IF NeedsManager(b, age)
                  THEN SweepLoop(force_escalate(W, id).w, Tail(ids), now, stale_ids)
             ELSE SweepLoop(W, Tail(ids), now, stale_ids)

\* a faulty removal, for comparison: the stale ids stay tracked
DropNothing(active_ids, stale_ids) == active_ids

\* the removal of the stale ids from active tracking
DropStale(active_ids, stale_ids) == RemoveAll(active_ids, stale_ids)

\* AutonomousResolutionLoop._check_escalations
_check_escalations(W, now) ==
    LET swept == SweepLoop(W, W.active, now, <<>>)
    IN  [swept.w EXCEPT !.active = DropStale(@, swept.stale_ids)]

\* BlockerClassifier.classify on the blocker `id` of the world W: the blocker is
\* classified and the classification is logged
classify_logged(W, id) ==
    LET b == classify(W.blockers[id])
    IN  [W EXCEPT !.blockers[id] = b,
                  !.classification_log =
                      Append(@, [ blocker_id |-> id,
                                  classified_as |-> b.blocker_type,
                                  scores |-> _score_types(b.description) ])]

\* BlockerClassifier.classify_batch on the blockers `ids`
RECURSIVE classify_batch(_, _)
classify_batch(W, ids) ==
    IF ids = <<>> THEN W
    ELSE classify_batch(classify_logged(W, Head(ids)), Tail(ids))

\* ResolutionRouter.route_batch on the blockers `ids`: the world and the plans, in order
RECURSIVE route_batch(_, _, _, _)
route_batch(W, router, ids, sofar) ==
    IF ids = <<>> THEN [w |-> W, plans |-> sofar]
    ELSE LET r == route(router, W.blockers[Head(ids)])
         IN  route_batch([W EXCEPT !.blockers[Head(ids)] = r.blocker], router, Tail(ids),
                         Append(sofar, r.plan))

\* a faulty VERIFY, for comparison: the result's success is not looked at
VerifyAnyResult(W, id, result) ==
    IF W.blockers[id].status = "escalated"
    THEN [W EXCEPT !.metrics.total_escalated = @ + 1]
    ELSE LET counted == [W.metrics EXCEPT !.total_resolved = @ + 1]
         IN  [W EXCEPT !.metrics = record_resolution(counted, W.blockers[id]),
                       !.active = Remove(@, id)]

\* run_cycle, step 7 (VERIFY) for one blocker after its execution
Verify(W, id, result) ==
    IF result.success
    THEN IF W.blockers[id].status = "escalated"
         THEN [W EXCEPT !.metrics.total_escalated = @ + 1]
         ELSE LET counted == [W.metrics EXCEPT !.total_resolved = @ + 1]
              IN  [W EXCEPT !.metrics = record_resolution(counted, W.blockers[id]),
                            !.active = Remove(@, id)]
    ELSE W

\* a faulty loop body, for comparison: the plan is not stored
ProcessOneWithoutPlan(W, id, plan) ==
    LET w1 == [W EXCEPT !.active = Append(@, id)]
        ex == execute_with_fallback(w1, plan, id)
        w2 == Verify(ex.w, id, ex.result)
    IN  [w |-> _learn(w2, id, plan, ex.result), result |-> ex.result]

\* run_cycle, the body of the loop over zip(new_blockers, plans)
ProcessOne(W, id, plan) ==
    LET w1 == [W EXCEPT !.active = Append(@, id), !.plans = (id :> plan) @@ @]
        ex == execute_with_fallback(w1, plan, id)
        w2 == Verify(ex.w, id, ex.result)
    IN  [w |-> _learn(w2, id, plan, ex.result), result |-> ex.result]

RECURSIVE ProcessAll(_, _, _, _)
ProcessAll(W, ids, ps, sofar) ==
    IF ids = <<>> THEN [w |-> W, results |-> sofar]
    ELSE LET one == ProcessOne(W, Head(ids), Head(ps))
         IN  ProcessAll(one.w, Tail(ids), Tail(ps), Append(sofar, one.result))

\* a faulty run_cycle, for comparison: a signal that gave a blocker before gives none
RunCycleDeduplicating(W, router, checkins, tasks, now) ==
    LET w0 == [W EXCEPT !.metrics.total_cycles = @ + 1]
        found == _detect(checkins, tasks, now, 0)
        Fresher(b) == \A id \in DOMAIN W.blockers :
                          \/ W.blockers[id].title # b.title
                          \/ W.blockers[id].description # b.description
                          \/ W.blockers[id].source_check_in_id # b.source_check_in_id
                          \/ W.blockers[id].affected_task_ids # b.affected_task_ids
        kept == SelectSeq(found, Fresher)
        new_blockers == [i \in DOMAIN kept |-> [kept[i] EXCEPT !.id = Len(W.blockers) + i]]
        ids == [i \in DOMAIN new_blockers |-> new_blockers[i].id]
        w1 == [w0 EXCEPT !.blockers = @ \o new_blockers,
                         !.metrics.total_detected = @ + Len(new_blockers)]
        w2 == _check_escalations(w1, now)
        w3 == classify_batch(w2, ids)
        routed == route_batch(w3, router, ids, <<>>)
    IN  ProcessAll(routed.w, ids, routed.plans, <<>>)

\* a faulty run_cycle, for comparison: the sweep comes after the new blockers were
\* registered and processed
RunCycleSweepingLast(W, router, checkins, tasks, now) ==
    LET w0 == [W EXCEPT !.metrics.total_cycles = @ + 1]
        new_blockers == _detect(checkins, tasks, now, Len(W.blockers))
        ids == [i \in DOMAIN new_blockers |-> new_blockers[i].id]
        w1 == [w0 EXCEPT !.blockers = @ \o new_blockers,
                         !.metrics.total_detected = @ + Len(new_blockers)]
        w3 == classify_batch(w1, ids)
        routed == route_batch(w3, router, ids, <<>>)
        done == ProcessAll(routed.w, ids, routed.plans, <<>>)
    IN  [w |-> _check_escalations(done.w, now), results |-> done.results]

\* AutonomousResolutionLoop.run_cycle with the router `router` in self.router
run_cycle(W, router, checkins, tasks, now) ==
    LET w0 == [W EXCEPT !.metrics.total_cycles = @ + 1]
        new_blockers == _detect(checkins, tasks, now, Len(W.blockers))
        ids == [i \in DOMAIN new_blockers |-> new_blockers[i].id]
        w1 == [w0 EXCEPT !.blockers = @ \o new_blockers,
                         !.metrics.total_detected = @ + Len(new_blockers)]
        w2 == _check_escalations(w1, now)
        w3 == classify_batch(w2, ids)
        routed == route_batch(w3, router, ids, <<>>)
    IN  ProcessAll(routed.w, ids, routed.plans, <<>>)

\* AutonomousResolutionLoop.get_blocker_status
get_blocker_status(W, id) == IF id \in Range(W.active) THEN Some(W.blockers[id]) ELSE None

----------------------------------------------------------------------------
(* The inputs the calls are made with *)

CheckIn(employee, timestamp, accomplished, working_on, text, needs_help, sentiment) ==
    [ employee_id |-> employee, timestamp |-> timestamp, accomplished |-> accomplished,
      working_on |-> working_on, blockers |-> text, needs_help |-> needs_help,
      sentiment |-> sentiment ]

\* sentiment is in tenths: 0.1 is 1, 0.3 is 3
Waiting == CheckIn("alice", 0, {"done"}, {}, {"waiting on"}, FALSE, 6)

Critical == CheckIn("bob", 1, {}, {}, {"critical", "waiting on"}, FALSE, 5)

Stuck == CheckIn("alice", 1, {"done"}, {"stuck", "bug"}, {}, TRUE, 1)

Clean == CheckIn("bob", 0, {"done"}, {"api"}, {}, FALSE, 9)

Blocked == CheckIn("bob", 0, {"done"}, {"stuck", "api"}, {}, FALSE, 5)

Task(id, title, assignee, due_date, completed, stalled_since) ==
    [ id |-> id, title |-> title, assignee_id |-> assignee, due_date |-> due_date,
      completed |-> completed, stalled_since |-> stalled_since ]

Documentation == Task("t1", {"api", "documentation"}, <<"alice">>, Some(-2), FALSE, None)

Unassigned == Task("t2", {}, <<>>, Some(-13), FALSE, Some(-3))

Completed == Task("t3", {"server"}, <<"bob">>, Some(-4), TRUE, Some(-9))

\* the (checkins, tasks) arguments run_cycle is called with
Batches ==
    { <<<<>>, <<>>>>,
      <<<<Critical>>, <<>>>>,
      <<<<Stuck>>, <<>>>>,
      <<<<Blocked>>, <<>>>>,
      <<<<Clean, Waiting>>, <<Completed>>>>,
      <<<<Critical, Waiting>>, <<>>>>,
      <<<<>>, <<Unassigned>>>>,
      <<<<Waiting>>, <<Documentation>>>>,
      <<<<>>, <<Unassigned, Documentation>>>> }

\* the caller's `now`: whole days
Nows == {UnitsPerDay * d : d \in 1..MaxNow}

\* routers loop.router can be set to: one without fallback actions, and one whose
\* fallback for CONNECT_PEERS is REASSIGN
Routers ==
    { [OwnRouter EXCEPT !.fallback_actions = <<>>],
      [OwnRouter EXCEPT !.fallback_actions = [FALLBACK_ACTIONS EXCEPT !.connect_peers = "reassign"]] }

----------------------------------------------------------------------------
(* The state machine *)

World ==
    [ blockers |-> blockers, classification_log |-> classification_log,
      active |-> active, plans |-> plans, metrics |-> metrics,
      learning_log |-> learning_log, results |-> results, action_log |-> action_log,
      executions |-> executions, clock |-> clock ]

Becomes(W) ==
    /\ blockers' = W.blockers
    /\ classification_log' = W.classification_log
    /\ active' = W.active
    /\ plans' = W.plans
    /\ metrics' = W.metrics
    /\ learning_log' = W.learning_log
    /\ results' = W.results
    /\ action_log' = W.action_log
    /\ executions' = W.executions
    /\ clock' = W.clock

\* the threads that share the loop and call run_cycle on it
Callers == {1, 2}

\* a caller that is not inside run_cycle; `error` is the exception its last call ended
\* with
Idle ==
    [ pc |-> "idle", error |-> "none", now |-> 0, checkins |-> <<>>, tasks |-> <<>>,
      new_blockers |-> <<>>, passed |-> {}, used |-> 0, stale_ids |-> <<>>,
      plans |-> <<>>, results |-> <<>>, executed |-> 0 ]

\* AutonomousResolutionLoop.__init__
Init ==
    /\ blockers = <<>>
    /\ classification_log = <<>>
    /\ active = <<>>
    /\ plans = <<>>
    /\ metrics = NewMetrics
    /\ learning_log = <<>>
    /\ results = <<>>
    /\ action_log = <<>>
    /\ executions = <<>>
    /\ clock = 0
    /\ call = [op |-> "init"]
    /\ ret = None
    /\ inflight = [c \in Callers |-> Idle]

CallRunCycle(router, checkins, tasks, now) ==
    /\ metrics.total_cycles < MaxCycles
    /\ Len(blockers) + Len(_detect(checkins, tasks, now, 0)) <= MaxBlockers
    /\ LET out == run_cycle(World, router, checkins, tasks, now)
       IN  /\ Becomes(out.w)
           /\ ret' = out.results
           /\ UNCHANGED inflight
           /\ call' = [ op |-> "run_cycle", now |-> now,
                        checkins |-> [i \in DOMAIN checkins |-> checkins[i].employee_id],
                        tasks |-> [i \in DOMAIN tasks |-> tasks[i].id],
                        executed |-> Len(out.w.results) - Len(results) ]

\* loop.run_cycle(checkins, tasks, now) on the loop as constructed
RunCycle ==
    \E batch \in Batches, now \in Nows :
        CallRunCycle(OwnRouter, batch[1], batch[2], now)

\* loop.run_cycle(checkins, tasks, now) after loop.router was set to another router
RunCycleRouted ==
    \E router \in Routers, batch \in Batches, now \in Nows :
        CallRunCycle(router, batch[1], batch[2], now)

\* loop.force_escalate(id)
ForceEscalate ==
    \E id \in 1..MaxBlockers :
        /\ id \in Range(active) => blockers[id].escalation_count < MaxForced
        /\ LET out == force_escalate(World, id)
           IN  /\ Becomes(out.w)
               /\ ret' = out.result
               /\ UNCHANGED inflight
               /\ call' = [op |-> "force_escalate", id |-> id]

\* loop.get_blocker_status(id)
GetBlockerStatus ==
    \E id \in 1..MaxBlockers :
        /\ ret' = get_blocker_status(World, id)
        /\ UNCHANGED inflight
        /\ call' = [op |-> "get_blocker_status", id |-> id]
        /\ UNCHANGED <<blockers, classification_log, active, plans, metrics, learning_log,
                       results, action_log, executions, clock>>

\* time passes
Tick ==
    /\ clock < MaxClock
    /\ clock' = clock + 1
    /\ UNCHANGED inflight
    /\ call' = [op |-> "tick"]
    /\ ret' = None
    /\ UNCHANGED <<blockers, classification_log, active, plans, metrics, learning_log,
                   results, action_log, executions>>

Next == RunCycle \/ ForceEscalate \/ GetBlockerStatus \/ Tick

Spec == Init /\ [][Next]_vars

NextRouted == RunCycleRouted \/ ForceEscalate \/ GetBlockerStatus

SpecRouted == Init /\ [][NextRouted]_vars

----------------------------------------------------------------------------
(* The loop called again and again with an advancing `now` *)

\* the `now` of the last run_cycle call, if there was one
LastNow == IF call.op = "run_cycle" THEN Some(call.now) ELSE None

\* loop.run_cycle(checkins, tasks, now) with a `now` later than the last call's
RunCycleAdvancing ==
    \E router \in Routers, batch \in Batches, now \in Nows :
        /\ LastNow # None => now > LastNow[1]
        /\ CallRunCycle(router, batch[1], batch[2], now)

\* a `now` at which every blocker detected so far is older than escalate_to_director
LaterNow ==
    (IF LastNow # None /\ LastNow[1] > UnitsPerDay * MaxNow
     THEN LastNow[1] ELSE UnitsPerDay * MaxNow) + ESCALATE_TO_DIRECTOR + 1

\* loop.run_cycle(now=LaterNow) while blockers are tracked: the polling goes on
\* without new check-ins and tasks (at most MaxLater such calls)
RunCycleLater ==
    /\ active # <<>>
    /\ metrics.total_cycles < MaxCycles + MaxLater
    /\ \E router \in Routers :
        LET out == run_cycle(World, router, <<>>, <<>>, LaterNow)
        IN  /\ Becomes(out.w)
            /\ ret' = out.results
            /\ UNCHANGED inflight
            /\ call' = [ op |-> "run_cycle", now |-> LaterNow,
                         checkins |-> <<>>, tasks |-> <<>>,
                         executed |-> Len(out.w.results) - Len(results) ]

NextLive == RunCycleAdvancing \/ RunCycleLater

\* run_cycle keeps being called: the later calls are made as long as they are due
SpecLive == Init /\ [][NextLive]_vars /\ WF_vars(RunCycleLater)

----------------------------------------------------------------------------
(* The parts on their own: each call is made on a router, an executor or a   *)
(* detector just constructed, and the variables show that object afterwards *)

\* a just-constructed part working on the Blocker objects `bs`
Fresh(bs) ==
    [ blockers |-> bs, classification_log |-> <<>>,
      active |-> <<>>, plans |-> <<>>, metrics |-> NewMetrics,
      learning_log |-> <<>>, results |-> <<>>, action_log |-> <<>>,
      executions |-> <<>>, clock |-> clock ]

\* Blocker.id: the i-th Blocker object created has the id i
Numbered(found) == [i \in DOMAIN found |-> [found[i] EXCEPT !.id = i]]

Employees == <<"alice", "bob", "carol", "dave", "erin">>

\* ResolutionRouter(max_authority, default_channel).route(blocker)
Route ==
    /\ call.op = "init"
    /\ \E max_authority \in AuthorityLevel, default_channel \in ChannelType,
       btype \in {None} \cup {Some(t) : t \in BlockerType}, severity \in Severity :
        LET b == [NewBlocker("explicit", {}, severity, <<"alice">>, <<>>, None, 0)
                     EXCEPT !.id = 1,
                            !.blocker_type = btype,
                            !.status = IF btype = None THEN "detected" ELSE "classified",
                            !.trace = IF btype = None THEN <<"detected">>
                                      ELSE <<"detected", "classified">>]
            router == [ max_authority |-> max_authority,
                        default_channel |-> default_channel,
                        fallback_actions |-> FALLBACK_ACTIONS ]
            r == route(router, b)
        IN  /\ Becomes(Fresh(<<r.blocker>>))
            /\ ret' = <<r.plan>>
            /\ UNCHANGED inflight
            /\ call' = [op |-> "route", router |-> router, blocker |-> b]

\* ResolutionExecutor().execute(plan, blocker)
Execute ==
    /\ call.op = "init"
    /\ \E action \in ResolutionAction, n \in 0..MaxTargets, status \in BlockerStatus,
       count \in 0..MaxForced, settled \in BOOLEAN :
        LET b == [NewBlocker("explicit", {}, "medium", <<"alice">>, <<>>, None, -2)
                     EXCEPT !.id = 1,
                            !.status = status,
                            !.trace = <<status>>,
                            !.escalation_count = count,
                            !.resolved_at = IF settled THEN Some(-1) ELSE None,
                            !.resolution_notes = IF settled THEN Some("notify") ELSE None]
            plan == [ blocker_id |-> 1, action |-> action, authority_level |-> "standard",
                      target_employee_ids |-> SubSeq(Employees, 1, n),
                      channel |-> "slack", fallback_action |-> None ]
            ex == execute(Fresh(<<b>>), plan, 1)
        IN  /\ Becomes(ex.w)
            /\ ret' = <<ex.result>>
            /\ UNCHANGED inflight
            /\ call' = [op |-> "execute", plan |-> plan, blocker |-> b]

TaskIds == <<"t1", "t2", "t3", "t4">>

\* the reference times the detector is called with
DetectorNows == {0, 1}

\* BlockerDetector().detect_overdue_tasks(tasks, now), the tasks due up to MaxLate
\* units before the time 0, or not yet, or without due date
DetectOverdue ==
    /\ call.op = "init"
    /\ \E n \in 0..MaxTasks, now \in DetectorNows :
        \E due \in [1..n -> {None} \cup {Some(-d) : d \in (-1)..MaxLate}],
           completed \in [1..n -> BOOLEAN] :
            LET tasks == [i \in 1..n |->
                            Task(TaskIds[i], {}, <<"alice">>, due[i], completed[i], None)]
                found == Numbered(detect_overdue_tasks(tasks, now))
            IN  /\ Becomes(Fresh(found))
                /\ ret' = found
                /\ UNCHANGED inflight
                /\ call' = [op |-> "detect_overdue_tasks", tasks |-> tasks, now |-> now]

\* BlockerDetector().detect_stalled_tasks(tasks, now), the tasks stalled since up to
\* MaxStalled units before the time 0, or not stalled
DetectStalled ==
    /\ call.op = "init"
    /\ \E n \in 0..MaxTasks, now \in DetectorNows :
        \E since \in [1..n -> {None} \cup {Some(-d) : d \in (-1)..MaxStalled}],
           completed \in [1..n -> BOOLEAN] :
            LET tasks == [i \in 1..n |->
                            Task(TaskIds[i], {}, <<"alice">>, None, completed[i], since[i])]
                found == Numbered(detect_stalled_tasks(tasks, now))
            IN  /\ Becomes(Fresh(found))
                /\ ret' = found
                /\ UNCHANGED inflight
                /\ call' = [op |-> "detect_stalled_tasks", tasks |-> tasks, now |-> now]

\* the texts of a check-in's accomplished and working_on fields
FieldTexts == {{}, {"done"}, {"stuck"}, {"stuck", "blocked by"}, {"waiting on", "asap"}}

\* the texts of a check-in's blockers field
BlockersTexts == {{}, {"critical"}, {"waiting on"}}

\* sentiments, in tenths, around the 0.3 of the help-request test
Sentiments == {2, 3, 4}

\* BlockerDetector().detect_from_checkin(checkin)
DetectFromCheckin ==
    /\ call.op = "init"
    /\ \E text \in BlockersTexts, accomplished \in FieldTexts, working_on \in FieldTexts,
          needs_help \in BOOLEAN, sentiment \in Sentiments :
        LET checkin == CheckIn("alice", 0, accomplished, working_on, text, needs_help,
                               sentiment)
            found == Numbered(detect_from_checkin(checkin))
        IN  /\ Becomes(Fresh(found))
            /\ ret' = found
            /\ UNCHANGED inflight
            /\ call' = [op |-> "detect_from_checkin", checkin |-> checkin]

\* the phrases of the vocabulary that a type keyword matches
Vocabulary == UNION {TYPE_KEYWORDS[i][2] : i \in DOMAIN TYPE_KEYWORDS}

\* the category and status a blocker handed to classify has already
Priors ==
    { <<None, "detected">>, <<Some("knowledge"), "classified">>,
      <<Some("organizational"), "resolved">>, <<Some("dependency"), "in_progress">> }

\* one BlockerClassifier(), which has classified another blocker before or not
\* (`warm`), classifies a new blocker, a second blocker with the same title and
\* description that has a category and a status already, and the first one again;
\* ret is what the three calls returned
Classify ==
    /\ call.op = "init"
    /\ \E text \in SUBSET Vocabulary, prior \in Priors, warm \in BOOLEAN :
        LET other == NewBlocker("explicit", {"bug", "api"}, "medium", <<"bob">>, <<>>, None, 0)
            first == NewBlocker("explicit", text, "medium", <<"alice">>, <<>>, None, 0)
            second == [first EXCEPT !.blocker_type = prior[1],
                                    !.status = prior[2],
                                    !.trace = <<prior[2]>>]
            w0 == Fresh(Numbered(<<other, first, second>>))
            w1 == IF warm THEN classify_logged(w0, 1) ELSE w0
            w2 == classify_logged(w1, 2)
            w3 == classify_logged(w2, 3)
            w4 == classify_logged(w3, 2)
        IN  /\ Becomes(w4)
            /\ ret' = <<w2.blockers[2], w3.blockers[3], w4.blockers[2]>>
            /\ UNCHANGED inflight
            /\ call' = [ op |-> "classify", warm |-> warm,
                         blockers |-> <<w0.blockers[2], w0.blockers[3], w3.blockers[2]>> ]

NextParts ==
    Route \/ Execute \/ DetectOverdue \/ DetectStalled \/ DetectFromCheckin \/ Classify

SpecParts == Init /\ [][NextParts]_vars

----------------------------------------------------------------------------
(* run_cycle called by threads that share the loop.  The loop has no lock, so  *)
(* a thread may be suspended between two statements of run_cycle while the     *)
(* other runs; a step below is a group of statements run without a switch.     *)

\* the run_cycle call of the caller c moves to `locals`
Moves(c, locals) == inflight' = [inflight EXCEPT ![c] = locals]

\* the run_cycle call of the caller c ends with the exception `error`
Raises(c, error) == Moves(c, [Idle EXCEPT !.error = error])

\* run_cycle up to the call of _check_escalations, and the creation there of the
\* iterator over self._active_blockers.items(): it remembers the size of the map
BeginCycle ==
    \E c \in Callers, batch \in Batches, now \in Nows :
        /\ inflight[c].pc = "idle"
        /\ metrics.total_cycles < MaxCycles
        /\ Len(blockers) + Len(_detect(batch[1], batch[2], now, 0)) <= MaxBlockers
        /\ LET w0 == [World EXCEPT !.metrics.total_cycles = @ + 1]
               new_blockers == _detect(batch[1], batch[2], now, Len(blockers))
               w1 == [w0 EXCEPT !.blockers = @ \o new_blockers,
                                !.metrics.total_detected = @ + Len(new_blockers)]
           IN  /\ Becomes(w1)
               /\ Moves(c, [Idle EXCEPT
                       !.pc = "sweep",
                       !.now = now,
                       !.checkins = [i \in DOMAIN batch[1] |-> batch[1][i].employee_id],
                       !.tasks = [i \in DOMAIN batch[2] |-> batch[2][i].id],
                       !.new_blockers = [i \in DOMAIN new_blockers |-> new_blockers[i].id],
                       !.used = Len(active)])
        /\ UNCHANGED <<call, ret>>

\* the tracked ids the iterator of the caller c has not passed yet, in the map's order
Ahead(c) == SelectSeq(active, LAMBDA id : id \notin inflight[c].passed)

\* _check_escalations, one turn of the loop over self._active_blockers.items(): the
\* iterator raises RuntimeError if the size of the map is not the one it remembers,
\* else it gives the next entry and the body of the loop runs
Sweep ==
    \E c \in Callers :
        /\ inflight[c].pc = "sweep"
        /\ Len(active) # inflight[c].used \/ Ahead(c) # <<>>
        /\ IF Len(active) # inflight[c].used
           THEN /\ Raises(c, "RuntimeError")
                /\ UNCHANGED <<blockers, classification_log, active, plans, metrics,
                               learning_log, results, action_log, executions, clock>>
           ELSE LET id == Head(Ahead(c))
                    swept == SweepLoop(World, <<id>>, inflight[c].now,
                                       inflight[c].stale_ids)
                IN  /\ Becomes(swept.w)
                    /\ Moves(c, [inflight[c] EXCEPT
                            !.passed = @ \cup {id},
                            !.stale_ids = swept.stale_ids,
                            !.executed = @ + Len(swept.w.results) - Len(results)])
        /\ UNCHANGED <<call, ret>>

\* _check_escalations after the last entry: the stale ids still in the map are deleted;
\* then run_cycle classifies and routes its new blockers
EndSweep ==
    \E c \in Callers :
        /\ inflight[c].pc = "sweep"
        /\ Len(active) = inflight[c].used
        /\ Ahead(c) = <<>>
        /\ LET w2 == [World EXCEPT !.active = DropStale(@, inflight[c].stale_ids)]
               w3 == classify_batch(w2, inflight[c].new_blockers)
               routed == route_batch(w3, OwnRouter, inflight[c].new_blockers, <<>>)
           IN  /\ Becomes(routed.w)
               /\ Moves(c, [inflight[c] EXCEPT !.pc = "register",
                                               !.plans = routed.plans])
        /\ UNCHANGED <<call, ret>>

\* run_cycle, the loop over zip(new_blockers, plans): the next blocker and its plan are
\* put into self._active_blockers and self._active_plans
Register ==
    \E c \in Callers :
        /\ inflight[c].pc = "register"
        /\ Len(inflight[c].results) < Len(inflight[c].new_blockers)
        /\ LET k == Len(inflight[c].results) + 1
               id == inflight[c].new_blockers[k]
           IN  Becomes([World EXCEPT !.active = Append(@, id),
                                     !.plans = (id :> inflight[c].plans[k]) @@ @])
        /\ Moves(c, [inflight[c] EXCEPT !.pc = "resolve"])
        /\ UNCHANGED <<call, ret>>

\* run_cycle, the rest of the loop body: RESOLVE, VERIFY and LEARN; the del of VERIFY
\* raises KeyError if the blocker is not in the map any more
Resolve ==
    \E c \in Callers :
        /\ inflight[c].pc = "resolve"
        /\ LET k == Len(inflight[c].results) + 1
               id == inflight[c].new_blockers[k]
               plan == inflight[c].plans[k]
               ex == execute_with_fallback(World, plan, id)
               counted == [ex.w.metrics EXCEPT !.total_resolved = @ + 1]
           IN  IF /\ ex.result.success
                  /\ ex.w.blockers[id].status # "escalated"
                  /\ id \notin Range(ex.w.active)
               THEN /\ Becomes([ex.w EXCEPT
                           !.metrics = record_resolution(counted, ex.w.blockers[id])])
                    /\ Raises(c, "KeyError")
               ELSE /\ Becomes(_learn(Verify(ex.w, id, ex.result), id, plan, ex.result))
                    /\ Moves(c, [inflight[c] EXCEPT
                            !.pc = "register",
                            !.results = Append(@, ex.result),
                            !.executed = @ + Len(ex.w.results) - Len(results)])
        /\ UNCHANGED <<call, ret>>

\* run_cycle returns its results
Return ==
    \E c \in Callers :
        /\ inflight[c].pc = "register"
        /\ Len(inflight[c].results) = Len(inflight[c].new_blockers)
        /\ ret' = inflight[c].results
        /\ call' = [ op |-> "run_cycle", now |-> inflight[c].now,
                     checkins |-> inflight[c].checkins, tasks |-> inflight[c].tasks,
                     executed |-> inflight[c].executed ]
        /\ Moves(c, Idle)
        /\ UNCHANGED <<blockers, classification_log, active, plans, metrics, learning_log,
                       results, action_log, executions, clock>>

NextThreads == BeginCycle \/ Sweep \/ EndSweep \/ Register \/ Resolve \/ Return

SpecThreads == Init /\ [][NextThreads]_vars

----------------------------------------------------------------------------
(* What one step of the orchestrator shows *)

\* the step is a call of run_cycle
RunCycleStep == call'.op = "run_cycle" /\ metrics'.total_cycles = metrics.total_cycles + 1

\* the ids of the blockers detected in the step
NewIds == (Len(blockers) + 1)..Len(blockers')

\* the tracked blockers the step's sweep force-escalated
SweepEscalated ==
    {id \in Range(active) : blockers'[id].escalation_count > blockers[id].escalation_count}

\* the executions the step made on the blocker `id`, as indices of executions'
ExecutionsOf(id) ==
    {k \in (Len(executions) + 1)..Len(executions') : executions'[k].blocker_id = id}

\* the learning-log entries the step appended for the blocker `id`
LearnedOf(id) ==
    {k \in (Len(learning_log) + 1)..Len(learning_log') : learning_log'[k].blocker_id = id}

Min(S) == CHOOSE x \in S : \A y \in S : x <= y

Max(S) == CHOOSE x \in S : \A y \in S : y <= x

\* the age of blocker b at the time `now`
Age(b, now) == now - b.detected_at

----------------------------------------------------------------------------
(* C1 *)

\* the status order of the lifecycle: DETECTED -> CLASSIFIED -> ROUTED ->
\* {IN_PROGRESS, RESOLVED, ESCALATED} -> STALE, with IN_PROGRESS -> RESOLVED / ESCALATED
Forward ==
    { <<"detected", "classified">>, <<"classified", "routed">>,
      <<"routed", "in_progress">>, <<"routed", "resolved">>, <<"routed", "escalated">>,
      <<"in_progress", "resolved">>, <<"in_progress", "escalated">>,
      <<"in_progress", "stale">>, <<"resolved", "stale">>, <<"escalated", "stale">> }

\* C1: every blocker starts DETECTED and each change of its status is a forward move of
\* the lifecycle: it never skips CLASSIFIED or ROUTED and never moves to another status
\* of the same or an earlier stage.
C1_StatusOnlyMovesForward ==
    \A id \in DOMAIN blockers :
        LET t == blockers[id].trace
        IN  /\ t[1] = "detected"
            /\ \A k \in 1..(Len(t) - 1) : t[k] = t[k + 1] \/ <<t[k], t[k + 1]>> \in Forward

----------------------------------------------------------------------------
(* C2 *)

\* the tracked blockers older than the stale threshold at the step's `now`
Overdue == {id \in Range(active) : Age(blockers[id], call'.now) > ESCALATE_TO_DIRECTOR}

Unsettled == {id \in Range(active) : blockers[id].status \notin {"resolved", "escalated"}}

GoesStale(ids) ==
    /\ \A id \in ids : /\ blockers'[id].status = "stale"
                       /\ blockers'[id].severity = "critical"
                       /\ id \notin Range(active')
    /\ metrics'.total_stale = metrics.total_stale + Cardinality(ids)

----------------------------------------------------------------------------
(* C3 *)

\* the tracked blockers whose age at the step's `now` is above the manager threshold and
\* not above the director threshold
InBand ==
    {id \in Range(active) : /\ Age(blockers[id], call'.now) > ESCALATE_TO_MANAGER
                            /\ Age(blockers[id], call'.now) <= ESCALATE_TO_DIRECTOR}

NeverEscalated == {id \in Range(active) : blockers[id].escalation_count = 0}

\* C3: run_cycle escalates a tracked blocker in the band exactly once if it was never
\* escalated (escalation_count becomes 1, with one execution and one learning-log entry)
\* and a tracked blocker that was escalated before not at all, whatever its age; a cycle
\* that detects nothing raises total_escalated by exactly the number of first escalations.
C3_EscalatedOnceInBand ==
    [][RunCycleStep =>
        /\ \A id \in InBand \cap NeverEscalated :
            /\ blockers'[id].escalation_count = 1
            /\ Cardinality(ExecutionsOf(id)) = 1
            /\ Cardinality(LearnedOf(id)) = 1
        /\ \A id \in Range(active) \ NeverEscalated :
            /\ blockers'[id].escalation_count = blockers[id].escalation_count
            /\ ExecutionsOf(id) = {}
            /\ LearnedOf(id) = {}
        /\ NewIds = {} =>
            metrics'.total_escalated =
                metrics.total_escalated + Cardinality(InBand \cap NeverEscalated)
    ]_vars

\* a cycle that detected nothing has escalated a tracked blocker of the band
C3_Witness ==
    /\ call.op = "run_cycle"
    /\ ret = <<>>
    /\ call.executed = 1
    /\ \E id \in Range(active) :
        /\ blockers[id].escalation_count = 1
        /\ Age(blockers[id], call.now) > ESCALATE_TO_MANAGER
        /\ Age(blockers[id], call.now) <= ESCALATE_TO_DIRECTOR

----------------------------------------------------------------------------
(* C4 *)

\* C4: every execution of an ESCALATE plan succeeds, raises the blocker's
\* escalation_count by exactly 1 and leaves the blocker ESCALATED when execute returns.
C4_EscalateLeavesEscalated ==
    \A k \in DOMAIN executions :
        executions[k].action = "escalate" =>
            /\ executions[k].success
            /\ executions[k].escalations_after = executions[k].escalations_before + 1
            /\ executions[k].status_after = "escalated"

----------------------------------------------------------------------------
(* C5 *)

\* the results of the step whose execution succeeded, split by the action executed
SucceededEscalate ==
    {i \in DOMAIN ret' : ret'[i].success /\ ret'[i].plan.action = "escalate"}

SucceededOther ==
    {i \in DOMAIN ret' : ret'[i].success /\ ret'[i].plan.action # "escalate"}

\* C5: in run_cycle each new blocker whose execution succeeded counts in exactly one
\* counter: total_escalated if the action executed was ESCALATE (and it stays tracked),
\* total_resolved otherwise (and it gets a latency record and leaves active tracking).
C5_EscalatedOrResolved ==
    [][RunCycleStep =>
        /\ metrics'.total_escalated =
              metrics.total_escalated + Cardinality(SweepEscalated)
                                      + Cardinality(SucceededEscalate)
        /\ metrics'.total_resolved = metrics.total_resolved + Cardinality(SucceededOther)
        /\ Len(metrics'._resolution_times) =
              Len(metrics._resolution_times) + Cardinality(SucceededOther)
        /\ \A i \in SucceededOther : ret'[i].plan.blocker_id \notin Range(active')
        /\ \A i \in SucceededEscalate : ret'[i].plan.blocker_id \in Range(active')
    ]_vars

----------------------------------------------------------------------------
(* C6 *)

\* C6: after run_cycle returns, every blocker it escalated is in active tracking:
\* get_blocker_status returns it.
C6_EscalatedStaysTracked ==
    call.op = "run_cycle" =>
        \A i \in DOMAIN ret :
            (ret[i].success /\ ret[i].plan.action = "escalate") =>
                /\ ret[i].plan.blocker_id \in Range(active)
                /\ get_blocker_status(World, ret[i].plan.blocker_id) # None

----------------------------------------------------------------------------
(* C7 *)

\* where a blocker comes from in the detection order: check-ins, overdue tasks, stalled tasks
OriginRank(b) ==
    CASE b.title = "overdue" -> 2
      [] b.title = "stalled" -> 3
      [] OTHER -> 1

\* a sequence `sub` is made of the entries of `whole`, in order, each any number of times
RECURSIVE FollowsOrder(_, _)
FollowsOrder(sub, whole) ==
    IF sub = <<>> THEN TRUE
    ELSE IF whole = <<>> THEN FALSE
    ELSE IF Head(sub) = Head(whole) THEN FollowsOrder(Tail(sub), whole)
    ELSE FollowsOrder(sub, Tail(whole))

\* the employees / tasks the new blockers of rank r come from, in result order
SourcesOf(r) ==
    LET ids == [i \in DOMAIN ret' |-> ret'[i].plan.blocker_id]
        pick(i) == IF OriginRank(blockers'[ids[i]]) # r THEN <<>>
                   ELSE IF r = 1 THEN blockers'[ids[i]].source_check_in_id
                   ELSE blockers'[ids[i]].affected_task_ids
    IN  Concat([i \in DOMAIN ret' |-> pick(i)])

\* C7: run_cycle returns one result per blocker detected in the cycle, the i-th for the
\* i-th detected blocker; total_detected grows by their number; blockers from check-ins
\* come first, in check-in order, then those of overdue tasks, then those of stalled
\* tasks, each in task order; a cycle without inputs returns the empty list.
C7_OneResultPerBlockerInOrder ==
    [][RunCycleStep =>
        /\ Len(ret') = Cardinality(NewIds)
        /\ metrics'.total_detected = metrics.total_detected + Len(ret')
        /\ \A i \in DOMAIN ret' : ret'[i].plan.blocker_id = Len(blockers) + i
        /\ \A i, j \in DOMAIN ret' :
              i < j => OriginRank(blockers'[Len(blockers) + i])
                          <= OriginRank(blockers'[Len(blockers) + j])
        /\ FollowsOrder(SourcesOf(1), call'.checkins)
        /\ FollowsOrder(SourcesOf(2), call'.tasks)
        /\ FollowsOrder(SourcesOf(3), call'.tasks)
        /\ (call'.checkins = <<>> /\ call'.tasks = <<>>) => ret' = <<>>
    ]_vars

\* a cycle has returned the results of two check-ins' blockers, in check-in order, or of
\* an overdue and a stalled task blocker
C7_Witness ==
    /\ call.op = "run_cycle"
    /\ Len(ret) = 2
    /\ LET b1 == blockers[ret[1].plan.blocker_id]
           b2 == blockers[ret[2].plan.blocker_id]
       IN  \/ /\ call.checkins = <<"bob", "alice">>
              /\ b1.source_check_in_id = <<"bob">>
              /\ b2.source_check_in_id = <<"alice">>
           \/ b1.title = "overdue" /\ b2.title = "stalled"

----------------------------------------------------------------------------
(* C8 *)

\* the first and the last execution the step made on the new blocker `id`
FirstExecution(id) == executions'[Min(ExecutionsOf(id))]

LastExecution(id) == executions'[Max(ExecutionsOf(id))]

\* C8: for each new blocker run_cycle's execute_with_fallback executes once when the
\* primary action succeeds or the plan has no fallback, and twice (the primary action,
\* then the fallback action) when the primary fails and a fallback is set; never more;
\* each execution appends one result and one action-log entry, and the result returned
\* is the one of the last execution.
C8_AtMostTwoExecutions ==
    [][RunCycleStep =>
        \A i \in DOMAIN ret' :
            LET id == Len(blockers) + i
                plan == plans'[id]
                n == Cardinality(ExecutionsOf(id))
            IN  /\ FirstExecution(id).action = plan.action
                /\ (FirstExecution(id).success \/ plan.fallback_action = None) => n = 1
                /\ (~FirstExecution(id).success /\ plan.fallback_action # None) =>
                      /\ n = 2
                      /\ LastExecution(id).action = plan.fallback_action[1]
                /\ ret'[i].success = LastExecution(id).success
                /\ ret'[i].plan.action = LastExecution(id).action
                /\ Cardinality({k \in (Len(results) + 1)..Len(results') :
                                    results'[k].plan.blocker_id = id}) = n
                /\ Cardinality({k \in (Len(action_log) + 1)..Len(action_log') :
                                    action_log'[k].blocker_id = id}) = n
    ]_vars

\* a cycle has ended with two failed executions on its one new blocker: the primary
\* action, then the fallback, which was not tried again
C8_Witness ==
    /\ call.op = "run_cycle"
    /\ Len(ret) = 1
    /\ call.executed = 2
    /\ LET id == ret[1].plan.blocker_id
           n == Len(executions)
       IN  /\ executions[n].blocker_id = id /\ ~executions[n].success
           /\ executions[n - 1].blocker_id = id /\ ~executions[n - 1].success
           /\ executions[n - 1].action = plans[id].action
           /\ plans[id].fallback_action = Some(executions[n].action)
           /\ ret[1].plan.fallback_action # None
           /\ \A k \in 1..(n - 2) : executions[k].blocker_id # id

----------------------------------------------------------------------------
(* C9 *)

\* the i-th new blocker's primary action failed and it had no fallback or that failed too
Failed(i) ==
    LET id == Len(blockers) + i
    IN  /\ ~FirstExecution(id).success
        /\ plans'[id].fallback_action = None \/ ~LastExecution(id).success

\* C9: when the primary action fails and there is no fallback or the fallback fails too
\* (and only then) the result run_cycle returns for the blocker has success false; the
\* blocker is IN_PROGRESS and stays tracked, it counts neither in total_resolved nor in
\* total_escalated, and one learning-log entry with success false is appended for it.
C9_FailureStaysInProgress ==
    [][RunCycleStep =>
        /\ \A i \in DOMAIN ret' :
            LET id == Len(blockers) + i
            IN  /\ ret'[i].success = ~Failed(i)
                /\ Failed(i) =>
                      /\ blockers'[id].status = "in_progress"
                      /\ blockers'[id].resolved_at = None
                      /\ get_blocker_status(World', id) = Some(blockers'[id])
                      /\ Cardinality(LearnedOf(id)) = 1
                      /\ \A k \in LearnedOf(id) : /\ ~learning_log'[k].success
                                                  /\ learning_log'[k].action = plans'[id].action
        /\ (metrics'.total_resolved - metrics.total_resolved)
              + (metrics'.total_escalated - metrics.total_escalated)
              = Cardinality(SweepEscalated)
                  + Cardinality({i \in DOMAIN ret' : ret'[i].success})
    ]_vars

\* a cycle has returned a failed result for a blocker without fallback, which is
\* IN_PROGRESS and tracked, and the last learning-log entry records the failure
C9_Witness ==
    /\ call.op = "run_cycle"
    /\ Len(ret) >= 1
    /\ LET r == ret[Len(ret)]
           id == r.plan.blocker_id
       IN  /\ ~r.success
           /\ r.plan.fallback_action = None
           /\ blockers[id].status = "in_progress"
           /\ id \in Range(active)
           /\ learning_log[Len(learning_log)].blocker_id = id
           /\ ~learning_log[Len(learning_log)].success
           /\ metrics.total_resolved = 0 /\ metrics.total_escalated = 0

----------------------------------------------------------------------------
(* C10 *)

\* C10: total_resolved never exceeds total_detected, and resolution_rate, the fraction
\* total_resolved / total_detected, is between 0 and 1 and is 0 while nothing was detected.
C10_ResolutionRateInUnitInterval ==
    LET rate == resolution_rate(metrics)
    IN  /\ metrics.total_resolved <= metrics.total_detected
        /\ rate[2] > 0
        /\ 0 <= rate[1] /\ rate[1] <= rate[2]
        /\ metrics.total_detected = 0 => rate[1] = 0
        /\ metrics.total_detected > 0 => rate = <<metrics.total_resolved, metrics.total_detected>>

\* some but not all of the detected blockers are resolved
C10_Witness ==
    /\ metrics.total_detected > 1
    /\ metrics.total_resolved > 0
    /\ metrics.total_resolved < metrics.total_detected
    /\ resolution_rate(metrics) = <<metrics.total_resolved, metrics.total_detected>>

----------------------------------------------------------------------------
(* C11 *)

\* C11: total_cycles grows by one with every run_cycle call and with no other call;
\* total_resolved grows only in run_cycle, by one for each blocker detected and resolved
\* in that cycle; a blocker that was resolved before the call is left as it is by
\* run_cycle: not executed again, not logged again, not counted again.
C11_CountedOnce ==
    [][ /\ call'.op = "run_cycle" => metrics'.total_cycles = metrics.total_cycles + 1
        /\ call'.op # "run_cycle" =>
              /\ metrics'.total_cycles = metrics.total_cycles
              /\ metrics'.total_resolved = metrics.total_resolved
        /\ RunCycleStep =>
              /\ metrics'.total_resolved = metrics.total_resolved
                    + Cardinality({id \in NewIds : blockers'[id].status = "resolved"})
              /\ \A id \in DOMAIN blockers :
                    blockers[id].status = "resolved" =>
                        /\ blockers'[id] = blockers[id]
                        /\ ExecutionsOf(id) = {}
                        /\ LearnedOf(id) = {}
      ]_vars

\* a second cycle has resolved its one blocker, next to one resolved by the first cycle
C11_Witness ==
    /\ call.op = "run_cycle"
    /\ metrics.total_cycles = 2
    /\ metrics.total_resolved = 2
    /\ Len(ret) = 1
    /\ ret[1].success
    /\ \E id \in DOMAIN blockers :
          id # ret[1].plan.blocker_id /\ blockers[id].status = "resolved"

----------------------------------------------------------------------------
(* C12 *)

\* the step is a call of force_escalate or get_blocker_status with an id that is not in
\* active tracking
UntrackedLookup ==
    /\ call'.op \in {"force_escalate", "get_blocker_status"}
    /\ call'.id \notin Range(active)

\* C12: force_escalate(id) and get_blocker_status(id) with an id that is not in active
\* tracking return None and change nothing: not the blockers, the active blockers and
\* plans, the metrics, the learning log, the executor's results and action log.
C12_UntrackedIsNoOp ==
    [][UntrackedLookup =>
        /\ ret' = None
        /\ UNCHANGED <<blockers, active, plans, metrics, learning_log, results, action_log,
                       executions>>
    ]_vars

\* force_escalate was called on a blocker that had gone stale and returned None
C12_Witness ==
    /\ call.op = "force_escalate"
    /\ ret = None
    /\ call.id \in DOMAIN blockers
    /\ blockers[call.id].status = "stale"
    /\ call.id \in DOMAIN plans
    /\ call.id \notin Range(active)

----------------------------------------------------------------------------
(* C13 *)

\* the step is a call of force_escalate with the id of a tracked blocker
TrackedForceEscalate ==
    /\ call'.op = "force_escalate"
    /\ call'.id \in Range(active)

\* C13: force_escalate(id) on a tracked blocker makes one execution, of the stored plan
\* with action ESCALATE and authority ELEVATED, and returns its result, a success;
\* escalation_count and total_escalated grow by one, one learning-log entry with action
\* 'escalate' is appended, and total_cycles, total_detected, total_resolved and
\* total_stale stay as they are.
C13_ForceEscalateOnTracked ==
    [][TrackedForceEscalate =>
        LET id == call'.id
            derived == [plans[id] EXCEPT !.action = "escalate",
                                         !.authority_level = "elevated"]
        IN  /\ ret' # None
            /\ ret'[1].success
            /\ ret'[1].plan = derived
            /\ results' = Append(results, ret'[1])
            /\ Len(executions') = Len(executions) + 1
            /\ executions'[Len(executions')].blocker_id = id
            /\ executions'[Len(executions')].action = "escalate"
            /\ blockers'[id].escalation_count = blockers[id].escalation_count + 1
            /\ metrics' = [metrics EXCEPT !.total_escalated = @ + 1]
            /\ Len(learning_log') = Len(learning_log) + 1
            /\ learning_log'[Len(learning_log')].blocker_id = id
            /\ learning_log'[Len(learning_log')].action = "escalate"
            /\ learning_log'[Len(learning_log')].success
    ]_vars

\* force_escalate has escalated a tracked blocker whose stored plan has another action
C13_Witness ==
    /\ call.op = "force_escalate"
    /\ ret # None
    /\ ret[1].success
    /\ ret[1].plan.action = "escalate"
    /\ ret[1].plan.authority_level = "elevated"
    /\ plans[call.id].action = "connect_peers"
    /\ blockers[call.id].escalation_count = 1
    /\ metrics.total_escalated = 1

----------------------------------------------------------------------------
(* C14 *)

\* C14: every tracked blocker has one active plan, and after a forced escalation (by
\* force_escalate or by the sweep of run_cycle) the plan stored as active for the blocker
\* is the derived plan, with action ESCALATE and authority ELEVATED.
C14_ForcedPlanSupersedes ==
    /\ \A id \in Range(active) : id \in DOMAIN plans
    /\ \A id \in Range(active) :
          blockers[id].escalation_count >= 1 =>
              /\ plans[id].action = "escalate"
              /\ plans[id].authority_level = "elevated"
    /\ (call.op = "force_escalate" /\ ret # None) => plans[call.id] = ret[1].plan

----------------------------------------------------------------------------
(* C15 *)

\* the rank of the authority levels: IMMEDIATE < STANDARD < ELEVATED
Rank(level) == CASE level = "immediate" -> 0 [] level = "standard" -> 1 [] level = "elevated" -> 2

\* the routing table's entry for the blocker route was called with
TableEntry ==
    ROUTING_TABLE[IF call.blocker.blocker_type = None THEN "organizational"
                  ELSE call.blocker.blocker_type[1]][call.blocker.severity]

\* C15: the plan route returns has an authority level whose rank is not above the rank
\* of the router's max_authority, and the blocker is stamped with the same level.
C15_AuthorityNeverAboveMax ==
    call.op = "route" =>
        /\ Rank(ret[1].authority_level) <= Rank(call.router.max_authority)
        /\ blockers[1].authority_level = ret[1].authority_level

\* route was called for a table entry with ELEVATED authority on a router whose
\* max_authority is IMMEDIATE, and the plan has IMMEDIATE authority
C15_Witness ==
    /\ call.op = "route"
    /\ call.router.max_authority = "immediate"
    /\ TableEntry[2] = "elevated"
    /\ ret[1].authority_level = "immediate"
    /\ blockers[1].authority_level = "immediate"

----------------------------------------------------------------------------
(* C16 *)

\* the action that takes the place of a clamped action: its mapped fallback, or the
\* action itself when it has none
Substitute(action) ==
    CASE action = "escalate" -> "schedule_meeting"
      [] action = "reassign" -> "notify"
      [] action = "schedule_meeting" -> "notify"
      [] action = "connect_peers" -> "provide_info"
      [] OTHER -> action

----------------------------------------------------------------------------
(* C17 *)

\* C17: whether execute succeeds depends on the plan's action and its number n of target
\* employees only: NOTIFY, PROVIDE_INFO and ESCALATE succeed for every n, SCHEDULE_MEETING
\* succeeds iff n >= 1, REASSIGN and CONNECT_PEERS succeed iff n >= 2.
C17_SuccessByActionAndTargets ==
    call.op = "execute" =>
        LET n == Len(call.plan.target_employee_ids)
            action == call.plan.action
        IN  ret[1].success =
                CASE action \in {"notify", "provide_info", "escalate"} -> TRUE
                  [] action = "schedule_meeting" -> n >= 1
                  [] action \in {"reassign", "connect_peers"} -> n >= 2

\* execute with REASSIGN and one target employee has failed
C17_Witness ==
    /\ call.op = "execute"
    /\ call.plan.action = "reassign"
    /\ Len(call.plan.target_employee_ids) = 1
    /\ ~ret[1].success
    /\ results = <<ret[1]>>

----------------------------------------------------------------------------
(* C18 *)

\* the blocker after execute with the fields execute may write put back as they were
Restored ==
    [blockers[1] EXCEPT !.status = call.blocker.status,
                        !.trace = call.blocker.trace,
                        !.resolved_at = call.blocker.resolved_at,
                        !.resolution_notes = call.blocker.resolution_notes,
                        !.escalation_count = call.blocker.escalation_count]

\* C18: execute changes the blocker it is given: after a success the status is the one
\* execute assigns, resolved_at is the result's timestamp and resolution_notes is set from
\* the result; after a failure the status is IN_PROGRESS and resolved_at, resolution_notes
\* and escalation_count are as before; no other field changes.
C18_ExecuteUpdatesBlocker ==
    call.op = "execute" =>
        /\ Restored = call.blocker
        /\ ret[1].success =>
              /\ blockers[1].status = "resolved"
              /\ blockers[1].resolved_at = Some(ret[1].timestamp)
              /\ blockers[1].resolution_notes = Some(ret[1].plan.action)
        /\ ~ret[1].success =>
              /\ blockers[1].status = "in_progress"
              /\ blockers[1].resolved_at = call.blocker.resolved_at
              /\ blockers[1].resolution_notes = call.blocker.resolution_notes
              /\ blockers[1].escalation_count = call.blocker.escalation_count

\* execute has failed on a blocker that had resolved_at and resolution_notes set
C18_Witness ==
    /\ call.op = "execute"
    /\ ~ret[1].success
    /\ call.blocker.resolved_at # None
    /\ blockers[1].resolved_at = call.blocker.resolved_at
    /\ blockers[1].resolution_notes = call.blocker.resolution_notes
    /\ blockers[1].status = "in_progress"
    /\ call.blocker.escalation_count = 1

----------------------------------------------------------------------------
(* C19 *)

\* the positions, in order, of the tasks of the call that are not completed and overdue
OverdueTasks ==
    SelectSeq([i \in DOMAIN call.tasks |-> i],
              LAMBDA i : /\ ~call.tasks[i].completed
                         /\ call.tasks[i].due_date # None
                         /\ call.tasks[i].due_date[1] < call.now)

\* C19: detect_overdue_tasks(tasks, now) returns one 'Overdue' blocker for each task
\* that is not completed and has due_date < now, in task order, and none for another
\* task; its severity is CRITICAL when now - due_date is more than 7 days, fractions of
\* a day included, and HIGH otherwise.
C19_OverdueSeverity ==
    call.op = "detect_overdue_tasks" =>
        /\ Len(ret) = Len(OverdueTasks)
        /\ \A k \in DOMAIN ret :
              LET task == call.tasks[OverdueTasks[k]]
              IN  /\ ret[k].title = "overdue"
                  /\ ret[k].affected_task_ids = <<task.id>>
                  /\ ret[k].severity =
                        IF call.now - task.due_date[1] > 7 * UnitsPerDay
                        THEN "critical" ELSE "high"

----------------------------------------------------------------------------
(* C20 *)

\* the positions, in order, of the tasks of the call that are not completed and stalled
\* for longer than the window of 3 days
StalledTasks ==
    SelectSeq([i \in DOMAIN call.tasks |-> i],
              LAMBDA i : /\ ~call.tasks[i].completed
                         /\ call.tasks[i].stalled_since # None
                         /\ call.now - call.tasks[i].stalled_since[1] > 3 * UnitsPerDay)

\* C20: detect_stalled_tasks(tasks, now) returns one 'Stalled' blocker of MEDIUM severity
\* for each task that is not completed and whose stalled_since is more than the window
\* (3 days) before now, in task order, and none for another task.
C20_StalledBeyondWindow ==
    call.op = "detect_stalled_tasks" =>
        /\ Len(ret) = Len(StalledTasks)
        /\ \A k \in DOMAIN ret :
              /\ ret[k].title = "stalled"
              /\ ret[k].severity = "medium"
              /\ ret[k].status = "detected"
              /\ ret[k].affected_task_ids = <<call.tasks[StalledTasks[k]].id>>

\* of two tasks, one stalled for exactly the window and one for longer, the second alone
\* has a blocker
C20_Witness ==
    /\ call.op = "detect_stalled_tasks"
    /\ Len(call.tasks) = 2
    /\ ~call.tasks[1].completed /\ ~call.tasks[2].completed
    /\ call.tasks[1].stalled_since = Some(call.now - 3 * UnitsPerDay)
    /\ call.tasks[2].stalled_since = Some(call.now - 3 * UnitsPerDay - 1)
    /\ Len(ret) = 1
    /\ ret[1].affected_task_ids = <<"t2">>

----------------------------------------------------------------------------
(* C21 *)

\* 1 if the condition holds, 0 otherwise
Indicator(condition) == IF condition THEN 1 ELSE 0

\* the text holds a phrase one of the blocker patterns matches
HasBlockerPhrase(text) == text \cap Range(BLOCKER_PATTERNS) # {}

\* C21: detect_from_checkin emits as many blockers as the sum of four indicators: the
\* blockers field is not blank, the accomplished field matches a blocker pattern, the
\* working-on field matches a blocker pattern (one per field however many patterns
\* match), and needs_help is set with a sentiment below 0.3 (that blocker has the
\* severity HIGH).  The count is between 0 and 4, it is 0 for a check-in without
\* blockers text, pattern match and help request, and every blocker is DETECTED.
C21_CountIsSumOfIndicators ==
    call.op = "detect_from_checkin" =>
        LET c == call.checkin
            help == c.needs_help /\ c.sentiment < 3
            count == Indicator(c.blockers # {})
                     + Indicator(HasBlockerPhrase(c.accomplished))
                     + Indicator(HasBlockerPhrase(c.working_on))
                     + Indicator(help)
        IN  /\ Len(ret) = count
            /\ Len(ret) \in 0..4
            /\ help => ret[Len(ret)].title = "help" /\ ret[Len(ret)].severity = "high"
            /\ Cardinality({i \in DOMAIN ret : ret[i].title = "help"}) = Indicator(help)
            /\ (c.blockers = {} /\ ~HasBlockerPhrase(c.accomplished)
                  /\ ~HasBlockerPhrase(c.working_on) /\ ~c.needs_help) => ret = <<>>
            /\ \A i \in DOMAIN ret : ret[i].status = "detected" /\ ret[i].trace = <<"detected">>

\* a check-in whose accomplished field matches two patterns and whose four indicators
\* all hold gave four blockers
C21_Witness ==
    /\ call.op = "detect_from_checkin"
    /\ Cardinality(call.checkin.accomplished \cap Range(BLOCKER_PATTERNS)) = 2
    /\ Len(ret) = 4
    /\ ret[4].severity = "high"

----------------------------------------------------------------------------
(* C22 *)

\* C22: classification is deterministic and idempotent: two blockers with the same
\* title and description, and the same blocker classified twice, get the same category,
\* whatever the classifier has logged before and whatever category or status the
\* blocker had.
C22_SameTextSameCategory ==
    call.op = "classify" =>
        /\ call.blockers[1].description = call.blockers[2].description
        /\ ret[1].blocker_type = ret[2].blocker_type
        /\ ret[3].blocker_type = ret[1].blocker_type
        /\ \A i \in DOMAIN ret : ret[i].blocker_type # None /\ ret[i].status = "classified"
        /\ Len(classification_log) = 3 + Indicator(call.warm)
        /\ \A i \in DOMAIN classification_log :
              classification_log[i].blocker_id \in {2, 3} =>
                  classification_log[i].classified_as = ret[1].blocker_type

\* a classifier that had classified before gave a resolved ORGANIZATIONAL blocker the
\* category TECHNICAL of the fresh blocker with the same text
C22_Witness ==
    /\ call.op = "classify"
    /\ call.warm
    /\ call.blockers[2].blocker_type = Some("organizational")
    /\ call.blockers[2].status = "resolved"
    /\ call.blockers[3].blocker_type = Some("technical")
    /\ ret[2].blocker_type = Some("technical")
    /\ ret[3].blocker_type = Some("technical")
    /\ Len(classification_log) = 4

----------------------------------------------------------------------------
(* C23 *)

\* the fixed priority order of the categories
Priority == <<"dependency", "resource", "technical", "knowledge", "organizational">>

\* the number of keywords of the category `type` the text holds
Hits(type, text) ==
    LET i == CHOOSE k \in DOMAIN TYPE_KEYWORDS : TYPE_KEYWORDS[k][1] = type
    IN  Cardinality(TYPE_KEYWORDS[i][2] \cap text)

\* the category with the highest hit count, the earliest in Priority among several,
\* ORGANIZATIONAL without any hit
Category(text) ==
    LET top == Max({Hits(t, text) : t \in BlockerType})
        first == Min({i \in DOMAIN Priority : Hits(Priority[i], text) = top})
    IN  IF top = 0 THEN "organizational" ELSE Priority[first]

\* C23: classify assigns exactly one of the five categories, as a function of the hit
\* counts per category only: the category with the most hits, among several with the
\* most hits the earliest in the order DEPENDENCY, RESOURCE, TECHNICAL, KNOWLEDGE,
\* ORGANIZATIONAL, and ORGANIZATIONAL without any hit; the status becomes CLASSIFIED.
C23_CategoryByHitCounts ==
    call.op = "classify" =>
        \A i \in DOMAIN ret :
            /\ ret[i].blocker_type = Some(Category(call.blockers[i].description))
            /\ ret[i].blocker_type[1] \in BlockerType
            /\ ret[i].status = "classified"

\* a text with one RESOURCE hit and one KNOWLEDGE hit was classified RESOURCE
C23_Witness ==
    /\ call.op = "classify"
    /\ call.blockers[1].description = {"server", "documentation"}
    /\ ret[1].blocker_type = Some("resource")

----------------------------------------------------------------------------
(* C24 *)

\* the blockers of the entries the step appended to the learning log, in log order
LearnedIds ==
    [k \in 1..(Len(learning_log') - Len(learning_log)) |->
        learning_log'[Len(learning_log) + k].blocker_id]

\* the tracked blockers the step's sweep force-escalated, in the order of the sweep
SweepEscalatedInOrder ==
    LET Escalated(id) == id \in SweepEscalated
    IN  SelectSeq(active, Escalated)

\* the blockers detected in the step, in processing order
NewIdsInOrder == [k \in 1..(Len(blockers') - Len(blockers)) |-> Len(blockers) + k]

\* C24: the learning log is append-only over run_cycle and force_escalate calls: the
\* entries it has are never changed, reordered or removed; a run_cycle appends exactly
\* one entry per blocker it processes, failed or not, in processing order (after one
\* entry per forced escalation its sweep made), and a force_escalate on a tracked
\* blocker appends exactly one entry.
C24_LearningLogAppendOnly ==
    [][ /\ Len(learning_log') >= Len(learning_log)
        /\ SubSeq(learning_log', 1, Len(learning_log)) = learning_log
        /\ RunCycleStep =>
              /\ LearnedIds = SweepEscalatedInOrder \o NewIdsInOrder
              /\ Len(ret') = Len(NewIdsInOrder)
              /\ \A k \in DOMAIN ret' :
                    learning_log'[Len(learning_log') - Len(ret') + k].success = ret'[k].success
        /\ TrackedForceEscalate => LearnedIds = <<call'.id>>
        /\ (~RunCycleStep /\ ~TrackedForceEscalate) => learning_log' = learning_log
    ]_vars

\* a run_cycle whose sweep force-escalated a tracked blocker and which processed a
\* blocker whose execution failed: the log has an entry for each
C24_Witness ==
    /\ call.op = "run_cycle"
    /\ Len(ret) >= 1
    /\ ~ret[Len(ret)].success
    /\ ~learning_log[Len(learning_log)].success
    /\ Len(learning_log) = Len(blockers) + 1
    /\ \E k \in DOMAIN learning_log :
          /\ learning_log[k].action = "escalate"
          /\ learning_log[k].escalation_count = 1
          /\ \E j \in 1..(k - 1) : learning_log[j].blocker_id = learning_log[k].blocker_id

----------------------------------------------------------------------------
(* C25 *)

\* the times a run_cycle leaves behind: the timestamps of the results it returns, the
\* resolved_at of every blocker, and the metrics
TimesOf(out) ==
    [ timestamps |-> [i \in DOMAIN out.results |-> out.results[i].timestamp],
      resolved_at |-> [id \in DOMAIN out.w.blockers |-> out.w.blockers[id].resolved_at],
      metrics |-> out.w.metrics ]

\* C25: all time the core uses is the caller's `now`: the same run_cycle call on the
\* same loop gives the same result timestamps, the same resolved_at values and the
\* same metrics, average resolution latency included, whatever the wall clock reads
\* when the call is made.
C25_OutcomeIgnoresClock ==
    \A batch \in Batches, now \in Nows, reading \in 0..MaxClock :
        TimesOf(run_cycle(World, OwnRouter, batch[1], batch[2], now))
            = TimesOf(run_cycle([World EXCEPT !.clock = reading], OwnRouter,
                                batch[1], batch[2], now))

----------------------------------------------------------------------------
(* C26 *)

\* C26: in every state run_cycle and force_escalate calls can reach, active tracking
\* holds unresolved blockers only: no tracked blocker has the status RESOLVED or STALE.
C26_ActiveIsUnresolved ==
    \A id \in Range(active) : blockers[id].status \notin {"resolved", "stale"}

----------------------------------------------------------------------------
(* C27 *)

\* C27: every blocker that enters active tracking is eventually retired from it, as
\* long as run_cycle keeps being called with an advancing now: it leaves the active
\* set by being resolved or, at the latest, by going STALE in the first cycle in which
\* its age exceeds the stale threshold; none stays tracked forever.
C27_TrackedEventuallyRetired ==
    \A id \in 1..MaxBlockers : (id \in Range(active)) ~> (id \notin Range(active))

----------------------------------------------------------------------------
(* C28 *)

\* the actions processing may execute on the new blocker `id`: its plan's and the
\* plan's fallback
ProcessingActions(id) == {plans'[id].action} \cup Range(plans'[id].fallback_action)

\* the tracked blockers the step's sweep made STALE
SweepStale == {id \in Range(active) : blockers[id].status # "stale"
                                      /\ blockers'[id].status = "stale"}

\* C28: in a run_cycle the escalation sweep works on the blockers that were tracked when
\* the cycle started, and is over before a blocker detected in this cycle is registered:
\* a blocker detected in the cycle is not made STALE and not force-escalated by the
\* cycle's sweep, even when its detected_at is older than both thresholds already.
C28_SweepBeforeRegistration ==
    [][RunCycleStep =>
        /\ \A id \in NewIds :
              /\ "stale" \notin Range(blockers'[id].trace)
              /\ Cardinality(LearnedOf(id)) = 1
              /\ \A k \in ExecutionsOf(id) : executions'[k].action \in ProcessingActions(id)
              /\ Cardinality(ExecutionsOf(id)) <= 2
              /\ \A old \in Range(active) :
                    \A j \in ExecutionsOf(old), k \in ExecutionsOf(id) : j < k
        /\ metrics'.total_stale = metrics.total_stale + Cardinality(SweepStale)
        /\ \A k \in (Len(learning_log) + 1)..Len(learning_log') :
              learning_log'[k].blocker_id \in SweepEscalated \cup NewIds
    ]_vars

\* a run_cycle detected a blocker from a check-in older than escalate_to_director; its
\* execution failed and it is tracked, IN_PROGRESS and never escalated
C28_Witness ==
    /\ call.op = "run_cycle"
    /\ Len(ret) = 1
    /\ ~ret[1].success
    /\ LET id == Len(blockers)
       IN  /\ id \in Range(active)
           /\ call.now - blockers[id].detected_at > ESCALATE_TO_DIRECTOR
           /\ blockers[id].status = "in_progress"
           /\ blockers[id].escalation_count = 0
           /\ blockers[id].severity # "critical"

----------------------------------------------------------------------------
(* C29 *)

\* the sweep of the step made no forced escalation of the blocker `id`
NotEscalatedBySweep(id) ==
    /\ id \notin SweepEscalated
    /\ blockers'[id].escalation_count = blockers[id].escalation_count
    /\ ExecutionsOf(id) = {}
    /\ LearnedOf(id) = {}

\* what the sweep of a run_cycle step does to the tracked blockers `ids` whose age
\* exceeds the stale threshold, and to every tracked blocker at or below a threshold
SweepTriggers(ids) ==
    RunCycleStep =>
        /\ \A id \in ids :
              Age(blockers[id], call'.now) > ESCALATE_TO_DIRECTOR =>
                  /\ blockers'[id].status = "stale"
                  /\ id \in SweepStale
                  /\ NotEscalatedBySweep(id)
        /\ \A id \in Range(active) :
              /\ Age(blockers[id], call'.now) = ESCALATE_TO_DIRECTOR => id \notin SweepStale
              /\ Age(blockers[id], call'.now) <= ESCALATE_TO_MANAGER =>
                    /\ blockers'[id] = blockers[id]
                    /\ id \in Range(active')
                    /\ NotEscalatedBySweep(id)
        /\ SweepStale \cap SweepEscalated = {}
        /\ metrics'.total_escalated = metrics.total_escalated + Cardinality(SweepEscalated)
        /\ Len(results') - Len(results) = call'.executed
        /\ call'.executed = Cardinality(SweepEscalated)
                            + Cardinality(UNION {ExecutionsOf(id) : id \in NewIds})

----------------------------------------------------------------------------
(* C30 *)

\* the blockers that have the status STALE
StaleNow == {id \in DOMAIN blockers : blockers[id].status = "stale"}

\* C30: STALE is terminal: a blocker marked STALE is out of active tracking, and no
\* later run_cycle or force_escalate call changes its status, severity,
\* escalation_count or resolved_at, or counts it in total_stale again.
C30_StaleIsTerminal ==
    [][ /\ \A id \in StaleNow :
              /\ id \notin Range(active)
              /\ id \notin Range(active')
              /\ blockers'[id] = blockers[id]
              /\ ExecutionsOf(id) = {}
              /\ LearnedOf(id) = {}
        /\ metrics'.total_stale - metrics.total_stale
              = Cardinality({id \in DOMAIN blockers : id \notin StaleNow
                                                      /\ blockers'[id].status = "stale"})
        /\ call'.op = "force_escalate" /\ call'.id \in StaleNow => ret' = None
    ]_vars

\* force_escalate was called on a blocker the sweep had made STALE in the third cycle:
\* it returned None, and the blocker is still STALE, CRITICAL, never escalated,
\* unresolved and untracked, with total_stale 1 and nothing escalated
C30_Witness ==
    /\ call.op = "force_escalate"
    /\ ret = None
    /\ metrics.total_cycles = 3
    /\ metrics.total_stale = 1
    /\ metrics.total_escalated = 0
    /\ call.id \in DOMAIN blockers
    /\ blockers[call.id].status = "stale"
    /\ blockers[call.id].severity = "critical"
    /\ blockers[call.id].escalation_count = 0
    /\ blockers[call.id].resolved_at = None
    /\ call.id \notin Range(active)

----------------------------------------------------------------------------
(* C32 *)

\* a classified blocker of the category `btype` and the severity `severity` that
\* affects the first n employees
Affecting(btype, severity, n) ==
    [NewBlocker("explicit", {}, severity, SubSeq(Employees, 1, n), <<>>, None, 0)
        EXCEPT !.id = 1,
               !.blocker_type = Some(btype),
               !.status = "classified",
               !.trace = <<"detected", "classified">>]

\* the outcome of the own router's plan for the blocker b under execute_with_fallback
OwnOutcome(b) ==
    LET r == route(OwnRouter, b)
    IN  execute_with_fallback([World EXCEPT !.blockers = <<r.blocker>>], r.plan, 1)

----------------------------------------------------------------------------
(* C33 *)

\* C33: the action of a learning-log entry run_cycle writes is the action whose
\* execution gave the entry's success flag: when the plan's action failed and the
\* fallback was executed, the entry has the fallback action, the action of the plan of
\* the returned result, not the routed one.
C33_LoggedActionIsExecutedAction ==
    call.op = "run_cycle" =>
        \A k \in DOMAIN ret :
            LET entry == learning_log[Len(learning_log) - Len(ret) + k]
            IN  /\ entry.blocker_id = ret[k].plan.blocker_id
                /\ entry.success = ret[k].success
                /\ entry.action = ret[k].plan.action

----------------------------------------------------------------------------
(* C34 *)

\* the executions of ESCALATE that succeeded
EscalateExecutions ==
    {k \in DOMAIN executions : executions[k].action = "escalate" /\ executions[k].success}

\* C34: after any sequence of run_cycle and force_escalate calls, total_escalated is
\* the number of ESCALATE actions the loop has executed with success, the sum of
\* escalation_count over all its blockers, whether the escalation came from routing in
\* run_cycle, from the sweep or from force_escalate.
C34_TotalEscalatedCountsEscalations ==
    /\ metrics.total_escalated = Cardinality(EscalateExecutions)
    /\ metrics.total_escalated
          = SumSeq([id \in DOMAIN blockers |-> blockers[id].escalation_count])

----------------------------------------------------------------------------
(* C35 *)

\* C35: in every state run_cycle and force_escalate calls can reach, every id in the
\* active-blocker map has an entry in the active-plan map: plans are registered with
\* the blockers and never removed, not when the blocker is resolved and not when it goes
\* stale, so force_escalate on a tracked id never returns None for lack of a plan.
C35_TrackedHasPlan ==
    [][ /\ Range(active) \subseteq DOMAIN plans
        /\ Range(active') \subseteq DOMAIN plans'
        /\ DOMAIN plans' = DOMAIN blockers'
        /\ \A id \in DOMAIN plans : id \in DOMAIN plans' /\ plans'[id] = plans[id]
        /\ \A id \in DOMAIN plans' : plans'[id].blocker_id = id
        /\ TrackedForceEscalate => ret' # None
    ]_vars

\* force_escalate on a tracked blocker returned a result, while the plans of a blocker
\* gone stale and of the tracked one are both stored
C35_Witness ==
    /\ call.op = "force_escalate"
    /\ ret # None
    /\ call.id \in Range(active)
    /\ call.id \in DOMAIN plans
    /\ \E id \in DOMAIN plans : blockers[id].status = "stale" /\ id \notin Range(active)

----------------------------------------------------------------------------
(* C36 *)

\* C36: for every blocker the loop has processed, after any sequence of run_cycle and
\* force_escalate calls, resolved_at is set exactly when the status is RESOLVED:
\* blockers that are IN_PROGRESS, ESCALATED or STALE have no resolved_at, and every
\* RESOLVED blocker has one.
C36_ResolvedAtIffResolved ==
    \A id \in DOMAIN blockers :
        /\ blockers[id].status \in {"resolved", "in_progress", "escalated", "stale"}
        /\ blockers[id].resolved_at # None <=> blockers[id].status = "resolved"
        /\ blockers[id].resolved_at # None <=> blockers[id].resolution_notes # None

\* three blockers side by side: one RESOLVED by a forced escalation after a failure,
\* with resolved_at; one STALE and one IN_PROGRESS, without
C36_Witness ==
    /\ \E id \in DOMAIN blockers :
          /\ blockers[id].status = "resolved"
          /\ blockers[id].resolved_at # None
          /\ "in_progress" \in Range(blockers[id].trace)
          /\ blockers[id].escalation_count = 1
    /\ \E id \in DOMAIN blockers :
          /\ blockers[id].status \in {"stale", "in_progress"}
          /\ blockers[id].resolved_at = None

----------------------------------------------------------------------------
(* C37 *)

\* the (checkins, tasks) arguments that the call of the step may have been made with
CalledWith ==
    {batch \in Batches :
        /\ call'.checkins = [i \in DOMAIN batch[1] |-> batch[1][i].employee_id]
        /\ call'.tasks = [i \in DOMAIN batch[2] |-> batch[2][i].id]}

\* the signal a blocker was detected from
Signal(b) ==
    <<b.title, b.description, b.source_check_in_id, b.affected_task_ids, b.detected_at>>

\* C37: detection does not de-duplicate across cycles or signals: the same check-in or
\* the same still overdue or still stalled task given to run_cycle in k cycles gives k
\* blockers with fresh ids, k results and k more in total_detected, whether an earlier
\* blocker of the signal is resolved, stale or still tracked; a task that is overdue
\* and stalled gives two blockers in one cycle.  So a run_cycle detects what a loop
\* just constructed would detect from the same arguments.
C37_NoDeduplication ==
    [][RunCycleStep =>
        \E batch \in CalledWith :
            LET fresh == _detect(batch[1], batch[2], call'.now, 0)
            IN  /\ Len(blockers') = Len(blockers) + Len(fresh)
                /\ Len(ret') = Len(fresh)
                /\ metrics'.total_detected = metrics.total_detected + Len(fresh)
                /\ \A i \in DOMAIN fresh :
                      /\ Signal(blockers'[Len(blockers) + i]) = Signal(fresh[i])
                      /\ blockers'[Len(blockers) + i].id = Len(blockers) + i
                      /\ ret'[i].plan.blocker_id = Len(blockers) + i
                /\ \A i \in DOMAIN batch[2] :
                      LET task == batch[2][i]
                      IN  (/\ ~task.completed
                           /\ task.due_date # None /\ task.due_date[1] < call'.now
                           /\ task.stalled_since # None
                           /\ call'.now - task.stalled_since[1] > STALE_THRESHOLD)
                          => Cardinality({id \in NewIds :
                                 blockers'[id].affected_task_ids = <<task.id>>}) = 2
    ]_vars

\* the second of two cycles was given the check-in of the first again: its blocker is the
\* second of the same signal, while the first is still tracked
C37_Witness ==
    /\ call.op = "run_cycle"
    /\ metrics.total_cycles = 2
    /\ metrics.total_detected = 2
    /\ Len(ret) = 1
    /\ Len(blockers) = 2
    /\ Signal(blockers[1]) = Signal(blockers[2])
    /\ blockers[1].id # blockers[2].id
    /\ 1 \in Range(active)
    /\ blockers[1].status = "in_progress"

----------------------------------------------------------------------------
(* C31 *)

\* the ids a run_cycle call in flight has put into the map and not yet verified
Registering(d) ==
    IF inflight[d].pc = "resolve"
    THEN {inflight[d].new_blockers[Len(inflight[d].results) + 1]}
    ELSE {}

\* C31: two run_cycle calls made concurrently on one loop do not interleave the
\* escalation sweep of one with the registration or removal of blockers by the other:
\* while a call iterates over the map of active blockers, the map keeps the size it had
\* and holds no blocker that another call has registered and not yet verified, and no
\* call ends with an exception of the map.
C31_SweepNotInterleaved ==
    \A c \in Callers :
        /\ inflight[c].error = "none"
        /\ inflight[c].pc = "sweep" =>
              /\ Len(active) = inflight[c].used
              /\ \A d \in Callers \ {c} : Registering(d) \cap Range(active) = {}

====
